---- MODULE Spec2Model ----
(***************************************************************************)
(* Offline-first synchronisation of the Notes client.                      *)
(*                                                                         *)
(*   Local Store   Dexie database AIKeepOfflineDB   (services/offline)     *)
(*   Remote Store  Supabase tables                  (services/supabase)    *)
(*   Orchestrator  OfflineProvider.syncWithServer   (OfflineContext)       *)
(*   Facade        NotesProvider                    (NotesContext)         *)
(*                                                                         *)
(* Of a note the model keeps id, user_id, title, content, deleted,         *)
(* deleted_at, created_at, updated_at, sync_status and, in Dexie,          *)
(* last_modified; title stands for the remaining payload fields (type,     *)
(* color, pinned, archived, metadata), which every operation modelled here *)
(* copies the way it copies title.  The listing has its own note shape,    *)
(* with the fields it reads (title, content, color, labels, pinned,        *)
(* updated_at).                                                            *)
(***************************************************************************)
EXTENDS Integers, Sequences, FiniteSets, Bags, TLC

\* ------------------------------------------------------------------ bounds
MaxDrains == 2     \* drain cycles that can be in progress at once
MaxCycles == 2     \* drain cycles started per behaviour of SpecSync
MaxReloads == 1    \* page reloads per behaviour
MaxOps == 3        \* facade operations, or service calls, per behaviour
MaxNow == 9        \* the clock stops here
MaxNotes == 3      \* notes in the array the listing is computed from
MaxEnqueues == 1   \* entries added to the queue while drains run

\* --------------------------------------------------------- program values
RetryCap == 3      \* syncWithServer: (item.retries || 0) >= 3
UuidBase == 100    \* Supabase ids are UUIDs: never equal to a Dexie ++id

NoUser == "none"
Users == {"A"}
Null == 0
Titles == {"t1", "t2"}

VARIABLES
  now,            \* the clock read by new Date()
  \* Dexie tables (durable)
  notes, labels, note_labels, sync_queue, nextId,
  \* Supabase tables
  rnotes, rlabels, rnote_labels, nextUuid,
  \* OfflineProvider state and the closures its effects hold
  isOnline, isSyncing, userId, onlineEnv, timerEnv, drains,
  \* NotesProvider state
  memNotes, memLabels,
  \* which Dexie hook semantics the installed build has
  hookMutates,
  \* history: mutating Remote Store calls, removed entries, toasts, last step
  remoteCalls, origin, delivered, dropped, toasts, last, reloads, ops, cycles,
  \* Dexie tables cached_ai_responses and user_preferences (durable)
  cached_ai_responses, user_preferences,
  \* NotesProvider's notes array and filters, as the listing reads them
  view,
  \* what the last call of a service method or of the listing returned
  ret,
  \* history: each note as it was when it was last moved to the trash
  orig,
  \* history: the collaborators the last read of the facade called, in order
  reads

localVars == <<notes, labels, note_labels, sync_queue, nextId>>
remoteVars == <<rnotes, rlabels, rnote_labels, nextUuid, origin>>
reactVars == <<isOnline, isSyncing, userId, onlineEnv, timerEnv, drains>>
memVars == <<memNotes, memLabels>>
histVars == <<remoteCalls, delivered, dropped, toasts, last, reloads, ops, cycles>>
utilVars == <<cached_ai_responses, user_preferences, view, ret, orig, reads>>
vars == <<now, localVars, remoteVars, reactVars, memVars, hookMutates, histVars, utilVars>>

\* ----------------------------------------------------------------- helpers
\* { ...rec, ...upd }: the fields of upd laid over rec
Merge(rec, upd) ==
  [f \in DOMAIN rec |-> IF f \in DOMAIN upd THEN upd[f] ELSE rec[f]]

Min(S) == CHOOSE x \in S : \A y \in S : x <= y

\* ------------------------------------------------------------ Remote Store
\* .eq('id', noteId).eq('user_id', userId)
noteRows(noteId, uid) == {r \in rnotes : r.id = noteId /\ r.user_id = uid}
labelRows(labelId, uid) == {r \in rlabels : r.id = labelId /\ r.user_id = uid}

\* the row notesService.createNote inserts; the server assigns the id
notesService_createNote(uid, noteData) ==
  [id |-> nextUuid, user_id |-> uid,
   title |-> noteData.title, content |-> noteData.content,
   deleted |-> FALSE, deleted_at |-> Null,
   created_at |-> now, updated_at |-> now]

\* an update that the server skips when its row is newer than the payload
notesService_updateNote_ifNewer(noteId, uid, updates) ==
  {IF r \in noteRows(noteId, uid)
        /\ ("updated_at" \in DOMAIN updates => r.updated_at <= updates.updated_at)
     THEN Merge(Merge(r, updates), [updated_at |-> now])
     ELSE r : r \in rnotes}

\* notesService.updateNote / moveToTrash / restoreNote: update(...).eq().eq()
notesService_updateNote(noteId, uid, updates) ==
  {IF r \in noteRows(noteId, uid)
     THEN Merge(Merge(r, updates), [updated_at |-> now])
     ELSE r : r \in rnotes}

moveToTrashFields == [deleted |-> TRUE, deleted_at |-> now, updated_at |-> now]
restoreFields == [deleted |-> FALSE, deleted_at |-> Null, updated_at |-> now]

\* notesService.deleteNote: delete().eq().eq(), no .single(): no row is no error
notesService_deleteNote(noteId, uid) == rnotes \ noteRows(noteId, uid)

labelsService_createLabel(uid, name) ==
  [id |-> nextUuid, user_id |-> uid, name |-> name, created_at |-> now]

labelsService_updateLabel(labelId, uid, name) ==
  {IF r \in labelRows(labelId, uid) THEN [r EXCEPT !.name = name] ELSE r
     : r \in rlabels}

\* labelsService.deleteLabel removes the associations, then the label
labelsService_deleteLabel(labelId, uid) == rlabels \ labelRows(labelId, uid)

\* the insert of labelsService.addLabelToNote is refused by UNIQUE(note_id,
\* label_id) and by the two foreign keys of note_labels
canAddLabelToNote(noteId, labelId) ==
  /\ \E r \in rnotes : r.id = noteId
  /\ \E r \in rlabels : r.id = labelId
  /\ ~\E a \in rnote_labels : a.note_id = noteId /\ a.label_id = labelId

labelsService_removeLabelFromNote(noteId, labelId) ==
  {a \in rnote_labels : ~(a.note_id = noteId /\ a.label_id = labelId)}

\* ON DELETE CASCADE of note_labels.note_id and note_labels.label_id
cascade(nl, ns, ls) ==
  {a \in nl : (\E r \in ns : r.id = a.note_id) /\ (\E r \in ls : r.id = a.label_id)}

\* ------------------------------------------------------------- Local Store
\* the 'updating' hooks assign modifications.sync_status (and, for notes,
\* modifications.last_modified) in place and return nothing.  Dexie 1.x/2.x
\* apply the object the hook was handed, so the assignments land; Dexie
\* 3.x/4.x hand the hook a computed diff and apply only what it returns, so
\* the assignments are lost.  hookMutates says which.
updatingHook(rec) ==
  IF hookMutates
    THEN Merge([rec EXCEPT !.sync_status = "pending"], [last_modified |-> now])
    ELSE rec

\* a modify that writes the record anew, as put(upd) would
notes_modify_put(noteId, uid, upd) ==
  {IF r.id = noteId /\ r.user_id = uid
     THEN updatingHook(Merge([r EXCEPT !.title = "", !.content = ""], upd))
     ELSE r : r \in notes}

\* db.notes.where('id').equals(noteId).and(user_id === userId).modify(upd)
notes_modify(noteId, uid, upd) ==
  {IF r.id = noteId /\ r.user_id = uid THEN updatingHook(Merge(r, upd)) ELSE r
     : r \in notes}

labels_modify(labelId, uid, upd) ==
  {IF r.id = labelId /\ r.user_id = uid THEN updatingHook(Merge(r, upd)) ELSE r
     : r \in labels}

\* offlineService.notes.markSynced / labels.markSynced: modify without owner
notes_markSynced(noteId) ==
  {IF r.id = noteId THEN updatingHook(Merge(r, [sync_status |-> "synced"])) ELSE r
     : r \in notes}

labels_markSynced(labelId) ==
  {IF r.id = labelId THEN updatingHook(Merge(r, [sync_status |-> "synced"])) ELSE r
     : r \in labels}

\* the record offlineService.notes.create adds; the 'creating' hook stamps it
notes_create(uid, noteData) ==
  [id |-> nextId.notes, user_id |-> uid,
   title |-> noteData.title, content |-> noteData.content,
   deleted |-> FALSE, deleted_at |-> Null,
   created_at |-> now, updated_at |-> now, sync_status |-> "pending",
   last_modified |-> now]

labels_create(uid, name) ==
  [id |-> nextId.labels, user_id |-> uid, name |-> name,
   created_at |-> now, sync_status |-> "pending"]

\* the methods each object literal of services/offline defines: inside
\* offlineService.notes.create(...) `this` is offlineService.notes
methods ==
  [offlineService |-> {"initialize", "checkStorageQuota", "addToSyncQueue",
                       "getSyncQueue", "removeSyncQueueItem", "incrementSyncRetries",
                       "clearSyncQueue", "setPreference", "getPreference",
                       "getAllPreferences", "cacheAIResponse", "getCachedAIResponse",
                       "clearExpiredCache", "cleanup", "exportData", "importData",
                       "clearAllData", "getStats"},
   notes |-> {"getAll", "getTrashed", "create", "update", "delete", "restore",
              "search", "markSynced", "getPendingSync"},
   labels |-> {"getAll", "create", "update", "delete", "addToNote",
               "removeFromNote", "markSynced", "getPendingSync"}]

\* whether this.addToSyncQueue(...) is a function when `this` is receiver
thisHasAddToSyncQueue(receiver) == "addToSyncQueue" \in methods[receiver]

\* offlineService.addToSyncQueue: db.sync_queue.add({... retries: 0})
addToSyncQueue(tableName, recordId, operation, data) ==
  sync_queue \cup {[id |-> nextId.sync_queue, table_name |-> tableName,
                    record_id |-> recordId, operation |-> operation,
                    data |-> data, created_at |-> now, retries |-> 0]}

\* `await this.addToSyncQueue(...)` in a method of `receiver`: the queue it
\* leaves, or the queue untouched when the call is a TypeError
thisAddToSyncQueue(receiver, tableName, recordId, operation, data) ==
  IF thisHasAddToSyncQueue(receiver)
    THEN addToSyncQueue(tableName, recordId, operation, data)
    ELSE sync_queue

\* db.sync_queue.orderBy('created_at').toArray(): index order, then key order
RECURSIVE orderByCreatedAt(_)
orderByCreatedAt(S) ==
  IF S = {} THEN <<>>
  ELSE LET first == CHOOSE e \in S : \A f \in S :
                      \/ e.created_at < f.created_at
                      \/ (e.created_at = f.created_at /\ e.id <= f.id)
       IN <<first>> \o orderByCreatedAt(S \ {first})

getSyncQueue == orderByCreatedAt(sync_queue)

\* removeSyncQueueItem that empties the table
removeSyncQueueItem_all(queueId) == {}

\* db.sync_queue.delete(queueId)
removeSyncQueueItem(queueId) == {e \in sync_queue : e.id # queueId}

incrementSyncRetries(queueId) ==
  {IF e.id = queueId THEN [e EXCEPT !.retries = e.retries + 1] ELSE e
     : e \in sync_queue}

\* ------------------------------------------- Remote Store calls, as a whole
\* the Remote Store function processSyncQueueItem reaches for a queue entry:
\* "none" for an unknown table (a warning, no call, no error), "throw" for an
\* unknown operation (an Error before any call)
callFor(item) ==
  CASE item.table_name = "notes" ->
         (CASE item.operation = "create" -> "createNote"
            [] item.operation = "update" -> "updateNote"
            [] item.operation = "delete" ->
                 IF "permanent" \in DOMAIN item.data /\ item.data.permanent
                   THEN "deleteNote" ELSE "moveToTrash"
            [] OTHER -> "throw")
    [] item.table_name = "labels" ->
         (CASE item.operation = "create" -> "createLabel"
            [] item.operation = "update" -> "updateLabel"
            [] item.operation = "delete" -> "deleteLabel"
            [] OTHER -> "throw")
    [] item.table_name = "note_labels" ->
         (CASE item.operation = "create" -> "addLabelToNote"
            [] item.operation = "delete" -> "removeLabelFromNote"
            [] OTHER -> "throw")
    [] OTHER -> "none"

\* the payload {} of an entry that carries no field
noData == [empty |-> TRUE]

field(data, f) == IF f \in DOMAIN data THEN data[f] ELSE Null

\* what one call of fn leaves in the Remote Store: err says the call threw
\* (the network failed, or .single() found no row), row is the inserted id
remoteCall(fn, rid, uid, data, netOk) ==
  LET same == [err |-> FALSE, rnotes |-> rnotes, rlabels |-> rlabels,
               rnote_labels |-> rnote_labels, row |-> Null]
      fail == [same EXCEPT !.err = TRUE]
  IN IF ~netOk THEN fail
     ELSE CASE fn = "createNote" ->
                 LET r == notesService_createNote(uid, data)
                 IN [same EXCEPT !.rnotes = rnotes \cup {r}, !.row = r.id]
            [] fn = "updateNote" ->
                 IF noteRows(rid, uid) = {} THEN fail
                 ELSE [same EXCEPT !.rnotes = notesService_updateNote(rid, uid, data)]
            [] fn = "moveToTrash" ->
                 IF noteRows(rid, uid) = {} THEN fail
                 ELSE [same EXCEPT !.rnotes =
                         notesService_updateNote(rid, uid, moveToTrashFields)]
            [] fn = "restoreNote" ->
                 IF noteRows(rid, uid) = {} THEN fail
                 ELSE [same EXCEPT !.rnotes =
                         notesService_updateNote(rid, uid, restoreFields)]
            [] fn = "deleteNote" ->
                 LET ns == notesService_deleteNote(rid, uid)
                 IN [same EXCEPT !.rnotes = ns,
                                 !.rnote_labels = cascade(rnote_labels, ns, rlabels)]
            [] fn = "createLabel" ->
                 LET r == labelsService_createLabel(uid, field(data, "name"))
                 IN [same EXCEPT !.rlabels = rlabels \cup {r}, !.row = r.id]
            [] fn = "updateLabel" ->
                 IF labelRows(rid, uid) = {} THEN fail
                 ELSE [same EXCEPT !.rlabels =
                         labelsService_updateLabel(rid, uid, field(data, "name"))]
            [] fn = "deleteLabel" ->
                 LET ls == labelsService_deleteLabel(rid, uid)
                 IN [same EXCEPT !.rlabels = ls,
                       !.rnote_labels =
                          cascade({a \in rnote_labels : a.label_id # rid}, rnotes, ls)]
            [] fn = "addLabelToNote" ->
                 IF ~canAddLabelToNote(field(data, "note_id"), field(data, "label_id"))
                   THEN fail
                 ELSE [same EXCEPT !.row = nextUuid,
                         !.rnote_labels = rnote_labels \cup
                            {[id |-> nextUuid, note_id |-> data.note_id,
                              label_id |-> data.label_id]}]
            [] fn = "removeLabelFromNote" ->
                 [same EXCEPT !.rnote_labels =
                    labelsService_removeLabelFromNote(field(data, "note_id"),
                                                      field(data, "label_id"))]
            [] OTHER -> same

\* the Remote Store after a call, with the history of calls that changed it
applyRemote(res, e) ==
  /\ rnotes' = res.rnotes
  /\ rlabels' = res.rlabels
  /\ rnote_labels' = res.rnote_labels
  /\ nextUuid' = IF res.row # Null THEN nextUuid + 1 ELSE nextUuid
  /\ origin' = IF res.row # Null THEN origin \cup {<<res.row, e>>} ELSE origin

\* remoteCalls is the bag of the mutating calls the Remote Store has received;
\* e and at are the id and created_at of the queue entry a call replays, 0 for
\* a call of the facade
logCall(fn, rid, e, at, data) ==
  remoteCalls (+) SetToBag({[fn |-> fn, rid |-> rid, e |-> e, at |-> at,
                             data |-> data]})

\* ------------------------------------------------------------ Orchestrator
\* the values of one render that a callback created in it reads
closure(on, uid, syncing) ==
  [isOnline |-> on, userId |-> uid, isSyncing |-> syncing]

\* the effect of the periodic sync: an interval only while online and signed
\* in, holding the syncWithServer of the render that created it
interval(on, uid, syncing) ==
  IF on /\ uid # NoUser
    THEN [active |-> TRUE, env |-> closure(on, uid, syncing)]
    ELSE [active |-> FALSE, env |-> closure(FALSE, NoUser, FALSE)]

idle == [pc |-> "idle", uid |-> NoUser, silent |-> FALSE, snap |-> <<>>,
         i |-> 0, res |-> "-", called |-> <<>>]

Slots == 1..MaxDrains
running == {s \in Slots : drains[s].pc # "idle"}

\* a guard that looks at isSyncing only
guardPasses_syncingOnly(env) == ~env.isSyncing

\* if (!isOnline || !isAuthenticated || !userId || isSyncing) return
guardPasses(env) == env.isOnline /\ env.userId # NoUser /\ ~env.isSyncing

step(op, route, ok) == last' = [op |-> op, route |-> route, ok |-> ok]

\* syncWithServer(silent) of the render `env`, up to its first await: the
\* guard, then setIsSyncing(true); returns at once when the guard fails
syncWithServer(env, silent) ==
  IF guardPasses(env)
    THEN /\ Slots \ running # {}
         /\ cycles' = IF cycles < MaxCycles THEN cycles + 1 ELSE cycles
         /\ drains' = [drains EXCEPT ![Min(Slots \ running)] =
                         [idle EXCEPT !.pc = "getQueue", !.uid = env.userId,
                                      !.silent = silent]]
         /\ isSyncing' = TRUE
    ELSE UNCHANGED <<drains, isSyncing, cycles>>

\* window 'online': setIsOnline(true), the toast, and syncWithServer() of the
\* render in which the listener was installed. React 18 renders once for the
\* handler, so the interval created next sees both state changes.
handleOnline ==
  /\ ~isOnline
  /\ isOnline' = TRUE
  /\ IF onlineEnv.userId # NoUser
       THEN syncWithServer(onlineEnv, FALSE)
       ELSE UNCHANGED <<drains, isSyncing, cycles>>
  /\ timerEnv' = interval(TRUE, userId, isSyncing')
  /\ UNCHANGED <<now, localVars, remoteVars, userId, onlineEnv, memVars,
                 hookMutates, utilVars, remoteCalls, delivered, dropped, toasts, last, reloads, ops>>

\* window 'offline': setIsOnline(false); the interval is cleared
handleOffline ==
  /\ isOnline
  /\ isOnline' = FALSE
  /\ timerEnv' = interval(FALSE, userId, isSyncing)
  /\ UNCHANGED <<now, localVars, remoteVars, isSyncing, userId, onlineEnv, drains,
                 memVars, hookMutates, utilVars, remoteCalls, delivered, dropped, toasts,
                 last, reloads, cycles, ops>>

\* setInterval(() => syncWithServer(true), 30000)
syncInterval ==
  /\ timerEnv.active
  /\ syncWithServer(timerEnv.env, TRUE)
  /\ UNCHANGED <<now, localVars, remoteVars, isOnline, userId, onlineEnv, timerEnv,
                 memVars, hookMutates, utilVars, remoteCalls, delivered, dropped, toasts,
                 last, reloads, ops>>

\* the syncWithServer of the context value, called by a consumer
manualSync ==
  /\ syncWithServer(closure(isOnline, userId, isSyncing), FALSE)
  /\ UNCHANGED <<now, localVars, remoteVars, isOnline, userId, onlineEnv, timerEnv,
                 memVars, hookMutates, utilVars, remoteCalls, delivered, dropped, toasts,
                 last, reloads, ops>>

\* const syncQueue = await offlineService.getSyncQueue()
drainGetQueue(s) ==
  /\ drains[s].pc = "getQueue"
  /\ drains' = [drains EXCEPT ![s].snap = getSyncQueue,
                              ![s].i = 1,
                              ![s].pc = IF getSyncQueue = <<>> THEN "finish" ELSE "apply"]
  /\ UNCHANGED <<now, localVars, remoteVars, isOnline, isSyncing, userId, onlineEnv,
                 timerEnv, memVars, hookMutates, utilVars, remoteCalls, delivered, dropped,
                 toasts, last, reloads, cycles, ops>>

\* processSyncQueueItem(item) up to the answer of the Remote Store: the
\* request is sent and served (or lost), and the await resumes with a value or
\* an error. Offline no request reaches the server.
drainApply(s, netOk) ==
  LET d == drains[s]
      item == d.snap[d.i]
      fn == callFor(item)
      res == remoteCall(fn, item.record_id, d.uid, item.data, netOk)
  IN /\ d.pc = "apply"
     /\ netOk => isOnline
     /\ IF fn \in {"none", "throw"}
          THEN /\ drains' = [drains EXCEPT ![s].pc = "handle",
                               ![s].res = IF fn = "none" THEN "ok" ELSE "err"]
               /\ UNCHANGED <<remoteCalls, remoteVars>>
          ELSE /\ drains' = [drains EXCEPT ![s].pc = "handle",
                               ![s].res = IF res.err THEN "err" ELSE "ok",
                               ![s].called = Append(d.called, <<item.created_at, item.id>>)]
               /\ remoteCalls' = logCall(fn, item.record_id, item.id, item.created_at, item.data)
               /\ applyRemote(res, item.id)
     /\ UNCHANGED <<now, localVars, isOnline, isSyncing, userId, onlineEnv, timerEnv,
                    memVars, hookMutates, utilVars, delivered, dropped, toasts, last, reloads, cycles, ops>>

\* syncNote / syncLabel after the call: markSynced for create and update
markSyncedAfter(item) ==
  /\ notes' = IF item.table_name = "notes" /\ item.operation \in {"create", "update"}
                THEN notes_markSynced(item.record_id) ELSE notes
  /\ labels' = IF item.table_name = "labels" /\ item.operation \in {"create", "update"}
                 THEN labels_markSynced(item.record_id) ELSE labels

\* what is remembered of an entry that has left the queue
handled(item) ==
  [id |-> item.id, table_name |-> item.table_name, record_id |-> item.record_id,
   operation |-> item.operation]

\* whether the catch block removes the entry it has just counted a failure for
removesAfterFailure(item) == item.retries >= RetryCap

\* a loop that calls the Remote Store again, in the same cycle, for the entry
\* that has just failed
drainHandle_retriesAtOnce(s) ==
  LET d == drains[s]
      item == d.snap[d.i]
      more == d.i < Len(d.snap)
  IN /\ d.pc = "handle"
     /\ IF d.res = "ok"
          THEN /\ markSyncedAfter(item)
               /\ sync_queue' = removeSyncQueueItem(item.id)
               /\ delivered' = delivered \cup {handled(item)}
               /\ UNCHANGED <<dropped, toasts>>
          ELSE /\ sync_queue' =
                    IF removesAfterFailure(item)
                      THEN {e \in incrementSyncRetries(item.id) : e.id # item.id}
                      ELSE incrementSyncRetries(item.id)
               /\ dropped' = IF removesAfterFailure(item)
                               THEN dropped \cup {handled(item)} ELSE dropped
               /\ toasts' = IF removesAfterFailure(item) /\ ~d.silent
                              THEN toasts \cup {[kind |-> "QueueExhausted", e |-> item.id]}
                              ELSE toasts
               /\ UNCHANGED <<notes, labels, delivered>>
     /\ drains' = [drains EXCEPT
                     ![s].pc = IF more \/ d.res = "err" THEN "apply" ELSE "finish",
                     ![s].i = IF more /\ d.res = "ok" THEN d.i + 1 ELSE d.i,
                     ![s].res = "-"]
        /\ UNCHANGED <<now, note_labels, nextId, remoteVars, isOnline, isSyncing, userId,
                    onlineEnv, timerEnv, memVars, hookMutates, utilVars, remoteCalls, last, reloads, cycles, ops>>

\* the rest of the loop body: on success markSynced and removeSyncQueueItem; on
\* error incrementSyncRetries, and removeSyncQueueItem with a toast at the cap
drainHandle(s) ==
  LET d == drains[s]
      item == d.snap[d.i]
      more == d.i < Len(d.snap)
  IN /\ d.pc = "handle"
     /\ IF d.res = "ok"
          THEN /\ markSyncedAfter(item)
               /\ sync_queue' = removeSyncQueueItem(item.id)
               /\ delivered' = delivered \cup {handled(item)}
               /\ UNCHANGED <<dropped, toasts>>
          ELSE /\ sync_queue' =
                    IF removesAfterFailure(item)
                      THEN {e \in incrementSyncRetries(item.id) : e.id # item.id}
                      ELSE incrementSyncRetries(item.id)
               /\ dropped' = IF removesAfterFailure(item)
                               THEN dropped \cup {handled(item)} ELSE dropped
               /\ toasts' = IF removesAfterFailure(item) /\ ~d.silent
                              THEN toasts \cup {[kind |-> "QueueExhausted", e |-> item.id]}
                              ELSE toasts
               /\ UNCHANGED <<notes, labels, delivered>>
     /\ drains' = [drains EXCEPT ![s].pc = IF more THEN "apply" ELSE "finish",
                                 ![s].i = IF more THEN d.i + 1 ELSE d.i,
                                 ![s].res = "-"]
        /\ UNCHANGED <<now, note_labels, nextId, remoteVars, isOnline, isSyncing, userId,
                    onlineEnv, timerEnv, memVars, hookMutates, utilVars, remoteCalls, last, reloads, cycles, ops>>

\* a finally block that leaves the guard set
drainFinish_keepsGuard(s) ==
  /\ drains[s].pc = "finish"
  /\ drains' = [drains EXCEPT ![s] = idle]
  /\ UNCHANGED <<now, localVars, remoteVars, isOnline, isSyncing, userId, onlineEnv,
                 timerEnv, memVars, hookMutates, utilVars, remoteCalls, delivered, dropped,
                 toasts, last, reloads, cycles, ops>>

\* getStats, setLastSync, and the finally block: setIsSyncing(false)
drainFinish(s) ==
  /\ drains[s].pc = "finish"
  /\ drains' = [drains EXCEPT ![s] = idle]
  /\ isSyncing' = FALSE
  /\ UNCHANGED <<now, localVars, remoteVars, isOnline, userId, onlineEnv, timerEnv,
                 memVars, hookMutates, utilVars, remoteCalls, delivered, dropped, toasts,
                 last, reloads, cycles, ops>>

\* a Local Store call of the drain rejects: getSyncQueue, or, after an entry's
\* call has returned, the write that follows it and the incrementSyncRetries
\* of the catch block. The outer catch block toasts unless silent, and the
\* finally block is next.
drainAbort(s) ==
  /\ drains[s].pc \in {"getQueue", "handle"}
  /\ drains' = [drains EXCEPT ![s].pc = "finish", ![s].res = "-"]
  /\ toasts' = IF drains[s].silent THEN toasts
               ELSE toasts \cup {[kind |-> "SyncFailed", e |-> 0]}
  /\ UNCHANGED <<now, localVars, remoteVars, isOnline, isSyncing, userId, onlineEnv,
                 timerEnv, memVars, hookMutates, utilVars, remoteCalls, delivered, dropped,
                 last, reloads, cycles, ops>>

\* ------------------------------------------------------------------ Facade
\* what NotesProvider keeps of a note in its notes state
inMemory(r) ==
  [id |-> r.id, user_id |-> r.user_id, title |-> r.title, content |-> r.content,
   deleted |-> r.deleted, deleted_at |-> r.deleted_at,
   created_at |-> r.created_at, updated_at |-> r.updated_at]

inMemoryLabel(r) == [id |-> r.id, user_id |-> r.user_id, name |-> r.name]

NoteData == {[title |-> "t1", content |-> "c"]}
NoteUpdates == {[title |-> "t2"]}
LabelNames == {"work"}

\* the ids a caller of the facade can name: notes and labels it has seen
knownNotes == {r.id : r \in notes} \cup {r.id : r \in memNotes}
knownLabels == {r.id : r \in labels} \cup {r.id : r \in memLabels}

\* every facade operation: try { route } catch { toast; throw }
facade(op, ok) ==
  /\ userId # NoUser
  /\ ops < MaxOps
  /\ ops' = ops + 1
  /\ step(op, IF isOnline THEN "online" ELSE "offline", ok)
  /\ toasts' = IF ok THEN toasts ELSE toasts \cup {[kind |-> "OperationFailed", e |-> 0]}
  /\ UNCHANGED <<now, reactVars, hookMutates, utilVars, delivered, dropped, reloads, cycles>>

\* an online route that falls back to the queue when the call fails
onlineRoute_fallback(fn, rid, data, netOk) ==
  /\ isOnline
  /\ remoteCalls' = logCall(fn, rid, 0, 0, data)
  /\ applyRemote(remoteCall(fn, rid, userId, data, netOk), 0)
  /\ IF remoteCall(fn, rid, userId, data, netOk).err
       THEN /\ sync_queue' = addToSyncQueue("notes", rid, "update", data)
            /\ nextId' = [nextId EXCEPT !.sync_queue = @ + 1]
            /\ UNCHANGED <<notes, labels, note_labels>>
       ELSE UNCHANGED localVars

\* an online route: one Remote Store call, nothing in Dexie
onlineRoute(fn, rid, data, netOk) ==
  /\ isOnline
  /\ remoteCalls' = logCall(fn, rid, 0, 0, data)
  /\ applyRemote(remoteCall(fn, rid, userId, data, netOk), 0)
  /\ UNCHANGED localVars

\* an offline route that also tells the Remote Store
offlineRoute_viaRemote(enqueued) ==
  /\ ~isOnline
  /\ sync_queue' = enqueued
  /\ nextId' = [nextId EXCEPT
        !.notes = IF Cardinality(notes') > Cardinality(notes) THEN @ + 1 ELSE @,
        !.labels = IF Cardinality(labels') > Cardinality(labels) THEN @ + 1 ELSE @,
        !.note_labels = IF Cardinality(note_labels') > Cardinality(note_labels)
                          THEN @ + 1 ELSE @,
        !.sync_queue = IF enqueued = sync_queue THEN @ ELSE @ + 1]
  /\ remoteCalls' = logCall("offline", Null, 0, 0, noData)
  /\ UNCHANGED remoteVars

\* an offline route: Dexie only; enqueued is the queue it leaves
offlineRoute(enqueued) ==
  /\ ~isOnline
  /\ sync_queue' = enqueued
  /\ nextId' = [nextId EXCEPT
        !.notes = IF Cardinality(notes') > Cardinality(notes) THEN @ + 1 ELSE @,
        !.labels = IF Cardinality(labels') > Cardinality(labels) THEN @ + 1 ELSE @,
        !.note_labels = IF Cardinality(note_labels') > Cardinality(note_labels)
                          THEN @ + 1 ELSE @,
        !.sync_queue = IF enqueued = sync_queue THEN @ ELSE @ + 1]
  /\ UNCHANGED <<remoteVars, remoteCalls>>

createNote(noteData, netOk) ==
  LET res == remoteCall("createNote", Null, userId, noteData, netOk)
      ok == IF isOnline THEN ~res.err ELSE thisHasAddToSyncQueue("notes")
      newNote == IF isOnline
                   THEN inMemory(notesService_createNote(userId, noteData))
                   ELSE inMemory(notes_create(userId, noteData))
  IN /\ \/ onlineRoute("createNote", Null, noteData, netOk)
        \/ /\ notes' = notes \cup {notes_create(userId, noteData)}
           /\ UNCHANGED <<labels, note_labels>>
           /\ offlineRoute(thisAddToSyncQueue("notes", "notes", nextId.notes, "create",
                                         noteData))
     /\ memNotes' = IF ok THEN memNotes \cup {newNote} ELSE memNotes
     /\ UNCHANGED memLabels
     /\ netOk => isOnline
     /\ facade("createNote", ok)

updateNote(noteId, updates, netOk) ==
  LET res == remoteCall("updateNote", noteId, userId, updates, netOk)
      updated == [title |-> updates.title, updated_at |-> now]
      ok == IF isOnline THEN ~res.err ELSE thisHasAddToSyncQueue("notes")
      \* the row .single() returns, or what db.notes.get(noteId) finds
      got == IF isOnline THEN noteRows(noteId, userId) ELSE {r \in notes' : r.id = noteId}
  IN /\ \/ onlineRoute("updateNote", noteId, updates, netOk)
        \/ /\ notes' = notes_modify(noteId, userId, updated)
           /\ UNCHANGED <<labels, note_labels>>
           /\ offlineRoute(thisAddToSyncQueue("notes", "notes", noteId, "update", updated))
     /\ memNotes' = IF ok
                      THEN {IF n.id = noteId /\ got # {}
                              THEN inMemory(CHOOSE r \in (IF isOnline THEN rnotes' ELSE notes')
                                              : r.id = noteId)
                              ELSE n : n \in memNotes}
                      ELSE memNotes
     /\ UNCHANGED memLabels
     /\ netOk => isOnline
     /\ facade("updateNote", ok)

deleteNote(noteId, permanent, netOk) ==
  LET fn == IF permanent THEN "deleteNote" ELSE "moveToTrash"
      res == remoteCall(fn, noteId, userId, [permanent |-> permanent], netOk)
      updates == [deleted |-> TRUE, deleted_at |-> now, updated_at |-> now]
      ok == IF isOnline THEN ~res.err ELSE thisHasAddToSyncQueue("notes")
  IN /\ \/ onlineRoute(fn, noteId, [permanent |-> permanent], netOk)
        \/ /\ notes' = IF permanent
                         THEN {r \in notes : ~(r.id = noteId /\ r.user_id = userId)}
                         ELSE notes_modify(noteId, userId, updates)
           /\ UNCHANGED <<labels, note_labels>>
           /\ offlineRoute(IF permanent
                        THEN thisAddToSyncQueue("notes", "notes", noteId, "delete",
                                                [permanent |-> TRUE])
                        ELSE thisAddToSyncQueue("notes", "notes", noteId, "update",
                                                updates))
     /\ memNotes' = IF ~ok THEN memNotes
                    ELSE IF permanent THEN {n \in memNotes : n.id # noteId}
                    ELSE {IF n.id = noteId
                            THEN [n EXCEPT !.deleted = TRUE, !.deleted_at = now]
                            ELSE n : n \in memNotes}
     /\ UNCHANGED memLabels
     /\ netOk => isOnline
     /\ facade(IF permanent THEN "deleteNote" ELSE "moveToTrash", ok)

restoreNote(noteId, netOk) ==
  LET res == remoteCall("restoreNote", noteId, userId, <<>>, netOk)
      updates == [deleted |-> FALSE, deleted_at |-> Null, updated_at |-> now]
      ok == IF isOnline THEN ~res.err ELSE thisHasAddToSyncQueue("notes")
  IN /\ \/ onlineRoute("restoreNote", noteId, restoreFields, netOk)
        \/ /\ notes' = notes_modify(noteId, userId, updates)
           /\ UNCHANGED <<labels, note_labels>>
           /\ offlineRoute(thisAddToSyncQueue("notes", "notes", noteId, "update", updates))
     /\ memNotes' = IF ok
                      THEN {IF n.id = noteId
                              THEN [n EXCEPT !.deleted = FALSE, !.deleted_at = Null]
                              ELSE n : n \in memNotes}
                      ELSE memNotes
     /\ UNCHANGED memLabels
     /\ netOk => isOnline
     /\ facade("restoreNote", ok)

createLabel(name, netOk) ==
  LET res == remoteCall("createLabel", Null, userId, [name |-> name], netOk)
      ok == IF isOnline THEN ~res.err ELSE thisHasAddToSyncQueue("labels")
      newLabel == IF isOnline
                    THEN inMemoryLabel(labelsService_createLabel(userId, name))
                    ELSE inMemoryLabel(labels_create(userId, name))
  IN /\ \/ onlineRoute("createLabel", Null, [name |-> name], netOk)
        \/ /\ labels' = labels \cup {labels_create(userId, name)}
           /\ UNCHANGED <<notes, note_labels>>
           /\ offlineRoute(thisAddToSyncQueue("labels", "labels", nextId.labels, "create",
                                         [name |-> name]))
     /\ memLabels' = IF ok THEN memLabels \cup {newLabel} ELSE memLabels
     /\ UNCHANGED memNotes
     /\ netOk => isOnline
     /\ facade("createLabel", ok)

updateLabel(labelId, name, netOk) ==
  LET res == remoteCall("updateLabel", labelId, userId, [name |-> name], netOk)
      ok == IF isOnline THEN ~res.err ELSE thisHasAddToSyncQueue("labels")
  IN /\ \/ onlineRoute("updateLabel", labelId, [name |-> name], netOk)
        \/ /\ labels' = labels_modify(labelId, userId, [name |-> name])
           /\ UNCHANGED <<notes, note_labels>>
           /\ offlineRoute(thisAddToSyncQueue("labels", "labels", labelId, "update",
                                         [name |-> name]))
     /\ memLabels' = IF ok
                       THEN {IF l.id = labelId THEN [l EXCEPT !.name = name] ELSE l
                               : l \in memLabels}
                       ELSE memLabels
     /\ UNCHANGED memNotes
     /\ netOk => isOnline
     /\ facade("updateLabel", ok)

deleteLabel(labelId, netOk) ==
  LET res == remoteCall("deleteLabel", labelId, userId, noData, netOk)
      ok == IF isOnline THEN ~res.err ELSE thisHasAddToSyncQueue("labels")
  IN /\ \/ onlineRoute("deleteLabel", labelId, noData, netOk)
        \/ /\ note_labels' = {a \in note_labels : a.label_id # labelId}
           /\ labels' = {r \in labels : ~(r.id = labelId /\ r.user_id = userId)}
           /\ UNCHANGED notes
           /\ offlineRoute(thisAddToSyncQueue("labels", "labels", labelId, "delete",
                                         noData))
     /\ memLabels' = IF ok THEN {l \in memLabels : l.id # labelId} ELSE memLabels
     /\ UNCHANGED memNotes
     /\ netOk => isOnline
     /\ facade("deleteLabel", ok)

\* the labels of a note in memory are not part of the model's note record
addLabelToNote(noteId, labelId, netOk) ==
  LET association == [note_id |-> noteId, label_id |-> labelId]
      res == remoteCall("addLabelToNote", Null, userId, association, netOk)
      ok == IF isOnline THEN ~res.err ELSE thisHasAddToSyncQueue("labels")
  IN /\ \/ onlineRoute("addLabelToNote", Null, association, netOk)
        \/ /\ note_labels' = note_labels \cup
                {[id |-> nextId.note_labels, note_id |-> noteId, label_id |-> labelId]}
           /\ UNCHANGED <<notes, labels>>
           /\ offlineRoute(thisAddToSyncQueue("labels", "note_labels", nextId.note_labels,
                                         "create", association))
     /\ UNCHANGED memVars
     /\ netOk => isOnline
     /\ facade("addLabelToNote", ok)

\* the compound indexes the schema declares for a table: none ('++id, note_id,
\* label_id, sync_status'); where([a, b]) on an undeclared index is rejected
compoundIndexes == [note_labels |-> {}, user_preferences |-> {}]

removeLabelFromNote(noteId, labelId, netOk) ==
  LET association == [note_id |-> noteId, label_id |-> labelId]
      res == remoteCall("removeLabelFromNote", Null, userId, association, netOk)
      indexed == <<"note_id", "label_id">> \in compoundIndexes.note_labels
      found == {a \in note_labels : a.note_id = noteId /\ a.label_id = labelId}
      ok == IF isOnline THEN ~res.err
            ELSE indexed /\ (found = {} \/ thisHasAddToSyncQueue("labels"))
  IN /\ \/ onlineRoute("removeLabelFromNote", Null, association, netOk)
        \/ /\ note_labels' = IF indexed /\ found # {}
                               THEN note_labels \ {CHOOSE a \in found : TRUE}
                               ELSE note_labels
           /\ UNCHANGED <<notes, labels>>
           /\ offlineRoute(IF indexed /\ found # {}
                        THEN thisAddToSyncQueue("labels", "note_labels",
                               (CHOOSE a \in found : TRUE).id, "delete", noData)
                        ELSE sync_queue)
     /\ UNCHANGED memVars
     /\ netOk => isOnline
     /\ facade("removeLabelFromNote", ok)

\* ------------------------------------------------------ session and reload
\* the rows notesService.getNotes returns: note_labels!inner keeps the notes
\* that have a label
getNotes(uid) ==
  {r \in rnotes : /\ r.user_id = uid
                  /\ ~r.deleted
                  /\ \E a \in rnote_labels : a.note_id = r.id}

\* Clerk reports a signed-in user: both providers render with the new userId,
\* the listener and the interval are created again, and loadData runs
signIn(u, netOk) ==
  /\ userId = NoUser
  /\ userId' = u
  /\ onlineEnv' = closure(isOnline, u, isSyncing)
  /\ timerEnv' = interval(isOnline, u, isSyncing)
  /\ IF isOnline
       THEN IF netOk
              THEN /\ memNotes' = {inMemory(r) : r \in getNotes(u)}
                   /\ memLabels' = {inMemoryLabel(r) : r \in {l \in rlabels : l.user_id = u}}
              ELSE UNCHANGED memVars
       ELSE /\ memNotes' = {inMemory(r) : r \in {n \in notes : n.user_id = u /\ ~n.deleted}}
            /\ memLabels' = {inMemoryLabel(r) : r \in {l \in labels : l.user_id = u}}
  /\ UNCHANGED <<now, localVars, remoteVars, isOnline, isSyncing, drains, hookMutates, utilVars,
                 remoteCalls, delivered, dropped, toasts, last, reloads, cycles, ops>>

signOut ==
  /\ userId # NoUser
  /\ userId' = NoUser
  /\ onlineEnv' = closure(isOnline, NoUser, isSyncing)
  /\ timerEnv' = interval(isOnline, NoUser, isSyncing)
  /\ memNotes' = {}
  /\ memLabels' = {}
  /\ UNCHANGED <<now, localVars, remoteVars, isOnline, isSyncing, drains, hookMutates, utilVars,
                 remoteCalls, delivered, dropped, toasts, last, reloads, cycles, ops>>

\* the page is closed and opened again: Dexie and Supabase keep their rows,
\* the providers start from their initial state and every pending await is lost
reload ==
  /\ reloads < MaxReloads
  /\ reloads' = reloads + 1
  /\ cycles' = cycles
  /\ isOnline' = isOnline
  /\ isSyncing' = FALSE
  /\ userId' = NoUser
  /\ onlineEnv' = closure(isOnline, NoUser, FALSE)
  /\ timerEnv' = interval(isOnline, NoUser, FALSE)
  /\ drains' = [s \in Slots |-> idle]
  /\ memNotes' = {}
  /\ memLabels' = {}
  /\ UNCHANGED <<now, localVars, remoteVars, hookMutates, utilVars, remoteCalls, delivered,
                 dropped, toasts, last, ops>>

\* ------------------------------------- the service, called by a component
\* the context hands offlineService out, and with it notes.delete,
\* notes.restore, cacheAIResponse and getCachedAIResponse; cleanup is the
\* context's own. Each call counts against MaxOps and leaves in ret what it
\* returned and when.
serviceCall ==
  /\ ops < MaxOps
  /\ ops' = ops + 1
  /\ UNCHANGED <<now, remoteVars, reactVars, memVars, hookMutates, remoteCalls,
                 delivered, dropped, toasts, last, reloads, cycles, reads>>

returned(fn, arg, value) == [fn |-> fn, arg |-> arg, value |-> value, at |-> now]

\* null or undefined, where the other values a call returns are strings
NoValue == "null"

\* offlineService.addToSyncQueue(...) called on the service of the context
\* value, where `this` is offlineService. ret keeps the key of the new entry
\* and whether a drain held its snapshot of the queue at that moment.
offlineService_addToSyncQueue(tableName, recordId, operation, data) ==
  /\ sync_queue' = addToSyncQueue(tableName, recordId, operation, data)
  /\ nextId' = [nextId EXCEPT !.sync_queue = @ + 1]
  /\ ret' = returned("addToSyncQueue",
                     [record_id |-> recordId,
                      inFlight |-> \E s \in Slots : drains[s].pc \in {"apply", "handle"}],
                     nextId.sync_queue)
  /\ UNCHANGED <<notes, labels, note_labels, cached_ai_responses, user_preferences,
                 view, orig>>
  /\ serviceCall

\* the clock moves on
tick ==
  /\ now < MaxNow
  /\ now' = now + 1
  /\ UNCHANGED <<localVars, remoteVars, reactVars, memVars, hookMutates, histVars,
                 utilVars>>

\* offlineService.notes.delete(noteId, userId, permanent)
notes_delete(noteId, uid, permanent) ==
  LET updates == [deleted |-> TRUE, deleted_at |-> now, updated_at |-> now]
  IN /\ notes' = IF permanent
                   THEN {r \in notes : ~(r.id = noteId /\ r.user_id = uid)}
                   ELSE notes_modify(noteId, uid, updates)
     /\ sync_queue' = IF permanent
                        THEN thisAddToSyncQueue("notes", "notes", noteId, "delete",
                                                [permanent |-> TRUE])
                        ELSE thisAddToSyncQueue("notes", "notes", noteId, "update",
                                                updates)
     /\ nextId' = [nextId EXCEPT
                     !.sync_queue = IF sync_queue' = sync_queue THEN @ ELSE @ + 1]
     /\ orig' = IF permanent
                  THEN orig
                  ELSE {o \in orig : o.id # noteId}
                         \cup {r \in notes : r.id = noteId /\ r.user_id = uid}
     /\ ret' = returned("notes.delete", noteId,
                        IF thisHasAddToSyncQueue("notes") THEN "true" ELSE "TypeError")
     /\ UNCHANGED <<labels, note_labels, cached_ai_responses, view, user_preferences>>
     /\ serviceCall

\* offlineService.notes.create(userId, noteData)
offlineService_notes_create(uid, noteData) ==
  /\ notes' = notes \cup {notes_create(uid, noteData)}
  /\ sync_queue' = thisAddToSyncQueue("notes", "notes", nextId.notes, "create", noteData)
  /\ nextId' = [nextId EXCEPT
                  !.notes = @ + 1,
                  !.sync_queue = IF sync_queue' = sync_queue THEN @ ELSE @ + 1]
  /\ ret' = returned("notes.create", nextId.notes,
                     IF thisHasAddToSyncQueue("notes") THEN "note" ELSE "TypeError")
  /\ UNCHANGED <<labels, note_labels, cached_ai_responses, view, user_preferences, orig>>
  /\ serviceCall

\* offlineService.notes.update(noteId, userId, updates)
offlineService_notes_update(noteId, uid, updates) ==
  LET updated == [title |-> updates.title, updated_at |-> now]
  IN /\ notes' = notes_modify(noteId, uid, updated)
     /\ sync_queue' = thisAddToSyncQueue("notes", "notes", noteId, "update", updated)
     /\ nextId' = [nextId EXCEPT
                     !.sync_queue = IF sync_queue' = sync_queue THEN @ ELSE @ + 1]
     /\ ret' = returned("notes.update", noteId,
                        IF thisHasAddToSyncQueue("notes") THEN "note" ELSE "TypeError")
     /\ UNCHANGED <<labels, note_labels, cached_ai_responses, view, user_preferences,
                    orig>>
     /\ serviceCall

\* a restore that clears the flag and leaves the date
notes_restore_flagOnly(noteId, uid) ==
  LET updates == [deleted |-> FALSE, updated_at |-> now]
  IN /\ notes' = notes_modify(noteId, uid, updates)
     /\ sync_queue' = thisAddToSyncQueue("notes", "notes", noteId, "update", updates)
     /\ nextId' = [nextId EXCEPT
                     !.sync_queue = IF sync_queue' = sync_queue THEN @ ELSE @ + 1]
     /\ ret' = returned("notes.restore", noteId,
                        IF thisHasAddToSyncQueue("notes") THEN "note" ELSE "TypeError")
     /\ UNCHANGED <<labels, note_labels, cached_ai_responses, view, user_preferences,
                    orig>>
     /\ serviceCall

\* offlineService.notes.restore(noteId, userId)
notes_restore(noteId, uid) ==
  LET updates == [deleted |-> FALSE, deleted_at |-> Null, updated_at |-> now]
  IN /\ notes' = notes_modify(noteId, uid, updates)
     /\ sync_queue' = thisAddToSyncQueue("notes", "notes", noteId, "update", updates)
     /\ nextId' = [nextId EXCEPT
                     !.sync_queue = IF sync_queue' = sync_queue THEN @ ELSE @ + 1]
     /\ ret' = returned("notes.restore", noteId,
                        IF thisHasAddToSyncQueue("notes") THEN "note" ELSE "TypeError")
     /\ UNCHANGED <<labels, note_labels, cached_ai_responses, view, user_preferences, orig>>
     /\ serviceCall

\* what IndexedDB takes as a key: numbers, strings, dates, binary and arrays
\* of these. IDBKeyRange.only(v) throws DataError for any other v, and a
\* record whose indexed property holds another value is not in the index.
isValidKey(v) == v \notin BOOLEAN

\* config.app.trashRetentionDays, and the age at which cleanup drops a queue
\* entry, in the unit of the clock
trashRetentionDays == 7
oldSyncDays == 7

\* the context's cleanup: offlineService.cleanup() inside try/catch. Its
\* first query is where('deleted').equals(true): the key range of a boolean
\* rejects it, and the statements after the first await never run.
cleanup ==
  LET retentionDate == now - trashRetentionDays
      oldSyncDate == now - oldSyncDays
      rejected == ~isValidKey(TRUE)
      old == {n \in notes : /\ n.deleted = TRUE
                            /\ n.deleted_at # Null
                            /\ n.deleted_at < retentionDate}
  IN /\ notes' = IF rejected THEN notes ELSE notes \ old
     /\ cached_ai_responses' =
          IF rejected THEN cached_ai_responses
          ELSE {c \in cached_ai_responses : ~(c.expires_at < now)}
     /\ sync_queue' = IF rejected THEN sync_queue
                      ELSE {e \in sync_queue : ~(e.created_at < oldSyncDate)}
     /\ ret' = returned("cleanup", Null, IF rejected THEN "DataError" ELSE "done")
     /\ UNCHANGED <<labels, note_labels, nextId, view, user_preferences, orig>>
     /\ serviceCall

\* offlineService.cacheAIResponse(queryHash, response, ttlMinutes): put of an
\* object without id, so ++id makes a new row each time
cacheAIResponse(queryHash, response, ttl) ==
  /\ cached_ai_responses' = cached_ai_responses \cup
        {[id |-> nextId.cached_ai_responses, query_hash |-> queryHash,
          response |-> response, created_at |-> now, expires_at |-> now + ttl]}
  /\ nextId' = [nextId EXCEPT !.cached_ai_responses = @ + 1]
  /\ ret' = returned("cacheAIResponse", queryHash, NoValue)
  /\ UNCHANGED <<notes, labels, note_labels, sync_queue, view, user_preferences, orig>>
  /\ serviceCall

\* where('query_hash').equals(queryHash).first(): the row of lowest id
firstCached(queryHash) ==
  LET rows == {c \in cached_ai_responses : c.query_hash = queryHash}
  IN {c \in rows : \A d \in rows : c.id <= d.id}

\* offlineService.getCachedAIResponse(queryHash)
getCachedAIResponse(queryHash) ==
  LET found == firstCached(queryHash)
      cached == CHOOSE c \in found : TRUE
  IN /\ IF found = {}
          THEN /\ ret' = returned("getCachedAIResponse", queryHash, NoValue)
               /\ UNCHANGED cached_ai_responses
          ELSE IF cached.expires_at < now
            THEN /\ cached_ai_responses' = {c \in cached_ai_responses : c.id # cached.id}
                 /\ ret' = returned("getCachedAIResponse", queryHash, NoValue)
            ELSE /\ ret' = returned("getCachedAIResponse", queryHash, cached.response)
                 /\ UNCHANGED cached_ai_responses
     /\ UNCHANGED <<localVars, view, user_preferences, orig>>
     /\ serviceCall

\* -------------------------------------------- export, import, preferences
\* the 'creating' hooks, which bulkAdd runs for each record as add does
creatingHook(rec) == Merge(rec, [sync_status |-> "pending", last_modified |-> now])

\* table.bulkAdd(records): the records whose key is free are added; a key
\* that is taken is a ConstraintError, and the call rejects with BulkError
bulkAdd(table, records) ==
  [rows |-> table \cup {r \in records : ~\E t \in table : t.id = r.id},
   failed |-> \E r \in records, t \in table : t.id = r.id]

\* a transaction that keeps what was written before the rejection
transaction_noRollback(before, after, failed) == after

\* db.transaction('rw', tables, scope): the tables as scope leaves them, or
\* as they were when scope rejects
transaction(before, after, failed) == IF failed THEN before ELSE after

\* ++id after records with explicit keys were added
keyAfter(n, rows) == IF rows = {} THEN n ELSE
  LET top == CHOOSE i \in {r.id : r \in rows} : \A r \in rows : r.id <= i
  IN IF top >= n THEN top + 1 ELSE n

\* the context's importData: offlineService.importData(exportData) inside
\* try / catch { toast; throw }. The four bulkAdd calls run in turn inside
\* one transaction and the first that rejects ends the scope.
importData(exportData) ==
  LET data == exportData.data
      n == bulkAdd(notes, {creatingHook(r) : r \in data.notes})
      l == IF n.failed THEN [rows |-> labels, failed |-> TRUE]
           ELSE bulkAdd(labels, {creatingHook(r) : r \in data.labels})
      a == IF l.failed THEN [rows |-> note_labels, failed |-> TRUE]
           ELSE bulkAdd(note_labels, data.noteLabels)
      q == IF a.failed THEN [rows |-> user_preferences, failed |-> TRUE]
           ELSE bulkAdd(user_preferences, data.preferences)
      out == transaction(<<notes, labels, note_labels, user_preferences>>,
                         <<n.rows, l.rows, a.rows, q.rows>>, q.failed)
  IN /\ notes' = out[1]
     /\ labels' = out[2]
     /\ note_labels' = out[3]
     /\ user_preferences' = out[4]
     /\ nextId' = [nextId EXCEPT !.notes = keyAfter(@, notes'),
                                 !.labels = keyAfter(@, labels'),
                                 !.note_labels = keyAfter(@, note_labels'),
                                 !.user_preferences = keyAfter(@, user_preferences')]
     /\ ret' = returned("importData", exportData,
                        IF q.failed THEN "BulkError" ELSE "done")
     /\ UNCHANGED <<sync_queue, cached_ai_responses, view, orig>>
     /\ serviceCall

\* offlineService.exportData(userId): the owner's notes, labels and
\* preferences, and db.note_labels.toArray()
exportData(uid) ==
  /\ ret' = returned("exportData", uid,
       [version |-> "1.0", exportDate |-> now, userId |-> uid,
        data |-> [notes |-> {r \in notes : r.user_id = uid},
                  labels |-> {r \in labels : r.user_id = uid},
                  noteLabels |-> note_labels,
                  preferences |-> {r \in user_preferences : r.user_id = uid}]])
  /\ UNCHANGED <<localVars, cached_ai_responses, user_preferences, view, orig>>
  /\ serviceCall

\* where(['user_id', 'key']).equals([userId, key]).first(), on a schema
\* that declares the index
firstPreference(uid, key) ==
  LET rows == {r \in user_preferences : r.user_id = uid /\ r.key = key}
  IN {r \in rows : \A o \in rows : r.id <= o.id}

\* offlineService.setPreference(userId, key, value): the schema declares no
\* [user_id+key] index, so the query of its first line rejects
setPreference(uid, key, value) ==
  LET indexed == <<"user_id", "key">> \in compoundIndexes.user_preferences
      existing == firstPreference(uid, key)
  IN /\ IF ~indexed
          THEN /\ ret' = returned("setPreference", <<uid, key>>, "SchemaError")
               /\ UNCHANGED <<user_preferences, nextId>>
          ELSE /\ ret' = returned("setPreference", <<uid, key>>, NoValue)
               /\ IF existing # {}
                    THEN /\ user_preferences' =
                              {IF r \in existing THEN [r EXCEPT !.value = value] ELSE r
                                 : r \in user_preferences}
                         /\ UNCHANGED nextId
                    ELSE /\ user_preferences' = user_preferences \cup
                              {[id |-> nextId.user_preferences, user_id |-> uid,
                                key |-> key, value |-> value]}
                         /\ nextId' = [nextId EXCEPT !.user_preferences = @ + 1]
     /\ UNCHANGED <<notes, labels, note_labels, sync_queue, cached_ai_responses,
                    view, orig>>
     /\ serviceCall

\* offlineService.getPreference(userId, key, defaultValue = null)
getPreference(uid, key) ==
  LET indexed == <<"user_id", "key">> \in compoundIndexes.user_preferences
      pref == firstPreference(uid, key)
  IN /\ ret' = returned("getPreference", <<uid, key>>,
                        IF ~indexed THEN "SchemaError"
                        ELSE IF pref = {} THEN NoValue
                        ELSE (CHOOSE r \in pref : TRUE).value)
     /\ UNCHANGED <<localVars, cached_ai_responses, user_preferences, view, orig>>
     /\ serviceCall

\* ---------------------------------------------------- NotesProvider listing
\* text is a sequence of letters
toLowerCase(s) == [i \in DOMAIN s |-> IF s[i] = "T" THEN "t" ELSE s[i]]

includes(s, q) ==
  \E i \in 1..(Len(s) - Len(q) + 1) : SubSeq(s, i, i + Len(q) - 1) = q

\* a comparator that puts the oldest first
compare_oldestFirst(a, b) ==
  IF a.pinned /\ ~b.pinned THEN -1
  ELSE IF ~a.pinned /\ b.pinned THEN 1
  ELSE a.updated_at - b.updated_at

\* the comparator of filteredNotes
compare(a, b) ==
  IF a.pinned /\ ~b.pinned THEN -1
  ELSE IF ~a.pinned /\ b.pinned THEN 1
  ELSE b.updated_at - a.updated_at

\* x put before the first element it sorts before, or at the end
insert(arr, x) ==
  LET before == {i \in 1..Len(arr) : compare(x, arr[i]) < 0}
      at == IF before = {} THEN Len(arr) + 1 ELSE Min(before)
  IN SubSeq(arr, 1, at - 1) \o <<x>> \o SubSeq(arr, at, Len(arr))

\* Array.prototype.sort with that comparator: stable
RECURSIVE sort(_)
sort(arr) ==
  IF arr = <<>> THEN <<>> ELSE insert(sort(SubSeq(arr, 1, Len(arr) - 1)), arr[Len(arr)])

\* the useMemo of NotesProvider: three optional filters, then the sort
filteredNotes(list, searchQuery, selectedColor, selectedLabel) ==
  LET query == toLowerCase(searchQuery)
      bySearch == IF searchQuery # <<>>
                    THEN SelectSeq(list, LAMBDA note :
                           \/ includes(toLowerCase(note.title), query)
                           \/ includes(toLowerCase(note.content), query))
                    ELSE list
      byColor == IF selectedColor # NoValue
                   THEN SelectSeq(bySearch, LAMBDA note : note.color = selectedColor)
                   ELSE bySearch
      byLabel == IF selectedLabel # Null
                   THEN SelectSeq(byColor, LAMBDA note : selectedLabel \in note.labels)
                   ELSE byColor
  IN sort(byLabel)

\* a render of NotesProvider. With no filter set, `filtered` is the notes
\* array itself and sort() reorders it in place.
render ==
  LET out == filteredNotes(view.notes, view.searchQuery, view.selectedColor,
                           view.selectedLabel)
      unfiltered == /\ view.searchQuery = <<>>
                    /\ view.selectedColor = NoValue
                    /\ view.selectedLabel = Null
  IN /\ ret' = returned("filteredNotes", view, out)
     /\ view' = IF unfiltered THEN [view EXCEPT !.notes = out] ELSE view
     /\ UNCHANGED <<now, localVars, remoteVars, reactVars, memVars, hookMutates,
                    histVars, cached_ai_responses, user_preferences, reads, orig>>

setSearchQuery(q) ==
  /\ view' = [view EXCEPT !.searchQuery = q]
  /\ UNCHANGED <<now, localVars, remoteVars, reactVars, memVars, hookMutates,
                 histVars, cached_ai_responses, user_preferences, reads, ret, orig>>

setSelectedColor(c) ==
  /\ view' = [view EXCEPT !.selectedColor = c]
  /\ UNCHANGED <<now, localVars, remoteVars, reactVars, memVars, hookMutates,
                 histVars, cached_ai_responses, user_preferences, reads, ret, orig>>

setSelectedLabel(l) ==
  /\ view' = [view EXCEPT !.selectedLabel = l]
  /\ UNCHANGED <<now, localVars, remoteVars, reactVars, memVars, hookMutates,
                 histVars, cached_ai_responses, user_preferences, reads, ret, orig>>

\* --------------------------------------------------- NotesProvider reads
\* a read of the facade by a signed-in user: it changes no store
readCall ==
  /\ userId # NoUser
  /\ ops < MaxOps
  /\ ops' = ops + 1
  /\ UNCHANGED <<now, localVars, remoteVars, reactVars, hookMutates, remoteCalls,
                 delivered, dropped, last, reloads, cycles, cached_ai_responses,
                 user_preferences, view, orig>>

\* a search that asks the AI collaborator whether or not the app is online
searchCalls_aiAlways(online, pinecone, hits) ==
  <<"aiService.searchNotesSemantic">> \o
    (IF hits # {} THEN <<>>
     ELSE IF online THEN <<"notesService.searchNotes">>
     ELSE <<"offlineService.notes.search">>)

\* the collaborators searchNotes calls, in order: the semantic lookup when
\* online and Pinecone is configured, then, unless that found something, the
\* text search of the Remote Store or of the Local Store
searchCalls(online, pinecone, hits) ==
  (IF online /\ pinecone THEN <<"aiService.searchNotesSemantic">> ELSE <<>>) \o
    (IF online /\ pinecone /\ hits # {} THEN <<>>
     ELSE IF online THEN <<"notesService.searchNotes">>
     ELSE <<"offlineService.notes.search">>)

\* the facade's searchNotes(query). pinecone: whether an index is configured;
\* hits: what the semantic lookup finds, nothing when it fails (it catches);
\* netOk: whether the Remote Store answers; a failure is caught and gives [].
\* title.ilike.%query% and title.toLowerCase().includes(query) are equality
\* for the queries of the model, each a whole title.
searchNotes(query, pinecone, hits, netOk) ==
  LET calls == searchCalls(isOnline, pinecone, hits)
      text == calls[Len(calls)]
      found == IF text = "aiService.searchNotesSemantic" THEN hits
               ELSE IF text = "notesService.searchNotes"
                 THEN IF netOk
                        THEN {r.id : r \in {n \in rnotes : /\ n.user_id = userId
                                                          /\ ~n.deleted
                                                          /\ n.title = query}}
                        ELSE {}
               ELSE {r.id : r \in {n \in notes : /\ n.user_id = userId
                                                /\ ~n.deleted
                                                /\ n.title = query}}
  IN /\ reads' = calls
     /\ ret' = returned("searchNotes", [online |-> isOnline, hits |-> hits],
                        [raised |-> FALSE, result |-> found])
     /\ netOk => isOnline
     /\ UNCHANGED <<memVars, toasts>>
     /\ readCall

\* the facade's getTrashedNotes(): a failure is caught and gives []
getTrashedNotes(netOk) ==
  /\ reads' = IF isOnline THEN <<"notesService.getTrashedNotes">>
              ELSE <<"offlineService.notes.getTrashed">>
  /\ ret' = returned("getTrashedNotes", [online |-> isOnline, hits |-> {}],
       [raised |-> FALSE,
        result |-> IF isOnline
                     THEN IF netOk
                            THEN {r.id : r \in {n \in rnotes : n.user_id = userId /\ n.deleted}}
                            ELSE {}
                     ELSE {r.id : r \in {n \in notes : n.user_id = userId /\ n.deleted}}])
  /\ netOk => isOnline
  /\ UNCHANGED <<memVars, toasts>>
  /\ readCall

\* the facade's loadData(): the list, from the Remote Store when online and
\* from the Local Store when not; a failure is a toast
loadData(netOk) ==
  /\ reads' = IF isOnline THEN <<"notesService.getNotes", "labelsService.getLabels">>
              ELSE <<"offlineService.notes.getAll", "offlineService.labels.getAll">>
  /\ IF isOnline
       THEN IF netOk
              THEN /\ memNotes' = {inMemory(r) : r \in getNotes(userId)}
                   /\ memLabels' = {inMemoryLabel(r) : r \in {l \in rlabels : l.user_id = userId}}
                   /\ UNCHANGED toasts
              ELSE /\ toasts' = toasts \cup {[kind |-> "LoadFailed", e |-> 0]}
                   /\ UNCHANGED memVars
       ELSE /\ memNotes' = {inMemory(r) : r \in {n \in notes : n.user_id = userId /\ ~n.deleted}}
            /\ memLabels' = {inMemoryLabel(r) : r \in {l \in labels : l.user_id = userId}}
            /\ UNCHANGED toasts
  /\ ret' = returned("loadData", [online |-> isOnline, hits |-> {}],
                     [raised |-> FALSE, result |-> {}])
  /\ netOk => isOnline
  /\ readCall

\* ------------------------------------------------------------ initial state
\* A Dexie database as an earlier session left it. Each entry has the shape
\* addToSyncQueue writes (retries 0, created_at of its enqueue): note 1 was
\* created and then retitled offline, and note UuidBase + 1, which the server
\* holds, was retitled offline.
persistedEntries ==
  {[id |-> 1, table_name |-> "notes", record_id |-> 1, operation |-> "create",
    data |-> [title |-> "t1", content |-> "c"], created_at |-> 1, retries |-> 0],
   [id |-> 2, table_name |-> "notes", record_id |-> 1, operation |-> "update",
    data |-> [title |-> "t2", updated_at |-> 2], created_at |-> 2, retries |-> 0],
   [id |-> 3, table_name |-> "notes", record_id |-> UuidBase + 1,
    operation |-> "update", data |-> [title |-> "t2", updated_at |-> 3],
    created_at |-> 3, retries |-> 0],
   [id |-> 4, table_name |-> "user_preferences", record_id |-> 1,
    operation |-> "create", data |-> noData, created_at |-> 3, retries |-> 0],
   [id |-> 5, table_name |-> "notes", record_id |-> UuidBase + 1,
    operation |-> "update", data |-> [title |-> "t2", updated_at |-> 3],
    created_at |-> 3, retries |-> 2]}

entries(ids) == {e \in persistedEntries : e.id \in ids}

\* a fresh database, the two entries of note 1, the entry of the server's
\* note, an entry of a table the replay does not know, and an entry that has
\* failed twice in an earlier session
persistedQueues == {{}, entries({1, 2}), entries({3}), entries({4}), entries({5})}

persistedNotes(queue) ==
  IF \E e \in queue : e.record_id = 1
    THEN {[id |-> 1, user_id |-> "A", content |-> "c",
           title |-> IF \E e \in queue : e.id = 2 THEN "t2" ELSE "t1",
           deleted |-> FALSE, deleted_at |-> Null, created_at |-> 1,
           updated_at |-> IF \E e \in queue : e.id = 2 THEN 2 ELSE 1,
           sync_status |-> "pending",
           last_modified |-> IF hookMutates /\ \E e \in queue : e.id = 2 THEN 2 ELSE 1]}
    ELSE {}

\* the server's note was last written, by another device, after the queued
\* updates of it were made
serverNotes ==
  {[id |-> UuidBase + 1, user_id |-> "A", title |-> "t1", content |-> "c",
    deleted |-> FALSE, deleted_at |-> Null, created_at |-> 1, updated_at |-> 4]}

serverLabels ==
  {[id |-> UuidBase + 2, user_id |-> "A", name |-> "work", created_at |-> 1]}

serverNoteLabels ==
  {[id |-> UuidBase + 3, note_id |-> UuidBase + 1, label_id |-> UuidBase + 2]}

\* notes an earlier session created and moved to the trash through the
\* service: note 1 long ago, note 3 just now; note 2 was never trashed
trashedNotes ==
  {[id |-> 1, user_id |-> "A", title |-> "t1", content |-> "c",
    deleted |-> TRUE, deleted_at |-> 1, created_at |-> 1, updated_at |-> 1,
    sync_status |-> "pending", last_modified |-> 1],
   [id |-> 2, user_id |-> "A", title |-> "t2", content |-> "c",
    deleted |-> FALSE, deleted_at |-> Null, created_at |-> 2, updated_at |-> 2,
    sync_status |-> "pending", last_modified |-> 2],
   [id |-> 3, user_id |-> "A", title |-> "t1", content |-> "c",
    deleted |-> TRUE, deleted_at |-> 3, created_at |-> 2, updated_at |-> 3,
    sync_status |-> "pending", last_modified |-> IF hookMutates THEN 3 ELSE 2]}

\* the notes a listing is computed from
SampleNotes ==
  {[id |-> 1, title |-> <<"T", "a">>, content |-> <<"c">>, color |-> "default",
    labels |-> {}, pinned |-> FALSE, updated_at |-> 1],
   [id |-> 2, title |-> <<"t", "b">>, content |-> <<"c">>, color |-> "red",
    labels |-> {UuidBase + 2}, pinned |-> TRUE, updated_at |-> 2],
   [id |-> 3, title |-> <<"T", "a">>, content |-> <<"b">>, color |-> "red",
    labels |-> {UuidBase + 2}, pinned |-> FALSE, updated_at |-> 3],
   [id |-> 4, title |-> <<"t", "b">>, content |-> <<"c">>, color |-> "default",
    labels |-> {}, pinned |-> TRUE, updated_at |-> 3],
   [id |-> 5, title |-> <<"T", "a">>, content |-> <<"c">>, color |-> "red",
    labels |-> {}, pinned |-> FALSE, updated_at |-> 3]}

\* every array of at most MaxNotes of them, in every order
Arrays ==
  UNION {{a \in [1..n -> SampleNotes] : \A i, j \in 1..n : a[i] = a[j] => i = j}
           : n \in 0..MaxNotes}

\* useState(''), useState(null), useState(null)
noFilter(list) ==
  [notes |-> list, searchQuery |-> <<>>, selectedColor |-> NoValue,
   selectedLabel |-> Null]

SearchQueries == {<<>>, <<"T">>, <<"b">>}
Colors == {NoValue, "red"}
LabelIds == {Null, UuidBase + 2}

\* the state after the providers mount over the Dexie database `queue`, its
\* notes and the notes in `trash`, with one of `lists` loaded
mountOver(queues, trash, lists) ==
  /\ now = 4
  /\ hookMutates \in BOOLEAN
  /\ sync_queue \in queues
  /\ notes = persistedNotes(sync_queue) \cup trash
  /\ labels = {}
  /\ note_labels = {}
  /\ nextId = [notes |-> (IF sync_queue = {} THEN 1 ELSE 2) + Cardinality(trash),
               labels |-> 1, note_labels |-> 1,
               sync_queue |-> IF sync_queue = {} THEN 1 ELSE 6,
               cached_ai_responses |-> 1, user_preferences |-> 1]
  /\ rnotes = serverNotes
  /\ rlabels = serverLabels
  /\ rnote_labels = serverNoteLabels
  /\ nextUuid = UuidBase + 4
  /\ origin = {}
  \* useState(navigator.onLine), useState(false), Clerk not loaded yet
  /\ isOnline \in BOOLEAN
  /\ isSyncing = FALSE
  /\ userId = NoUser
  /\ onlineEnv = closure(isOnline, NoUser, FALSE)
  /\ timerEnv = interval(isOnline, NoUser, FALSE)
  /\ drains = [s \in Slots |-> idle]
  /\ memNotes = {}
  /\ memLabels = {}
  /\ remoteCalls = EmptyBag
  /\ delivered = {}
  /\ dropped = {}
  /\ toasts = {}
  /\ last = [op |-> "mount", route |-> "-", ok |-> TRUE]
  /\ reloads = 0
  /\ cycles = 0
  /\ ops = 0
  /\ cached_ai_responses = {}
  /\ user_preferences = {}
  /\ reads = <<>>
  /\ view \in {noFilter(list) : list \in lists}
  /\ ret = returned("mount", Null, NoValue)
  /\ orig = {}

\* the same over a database with no trash and before any note is loaded
mount(queues) == mountOver(queues, {}, {<<>>})

\* a first visit: the database is empty
Init == mount({{}})

\* a later visit: the queue holds entries written through the service the
\* context hands out (value.offlineService.addToSyncQueue, where `this` is the
\* service)
InitSync == mount(persistedQueues \ {{}})

Next ==
  \/ handleOffline
  \/ \E u \in Users, netOk \in BOOLEAN : signIn(u, netOk)
  \/ \E d \in NoteData, netOk \in BOOLEAN : createNote(d, netOk)
  \/ \E n \in knownNotes, u \in NoteUpdates, netOk \in BOOLEAN : updateNote(n, u, netOk)
  \/ \E n \in knownNotes, p \in BOOLEAN, netOk \in BOOLEAN : deleteNote(n, p, netOk)
  \/ \E n \in knownNotes, netOk \in BOOLEAN : restoreNote(n, netOk)
  \/ \E nm \in LabelNames, netOk \in BOOLEAN : createLabel(nm, netOk)
  \/ \E l \in knownLabels, nm \in LabelNames, netOk \in BOOLEAN : updateLabel(l, nm, netOk)
  \/ \E l \in knownLabels, netOk \in BOOLEAN : deleteLabel(l, netOk)
  \/ \E n \in knownNotes, l \in knownLabels, netOk \in BOOLEAN : addLabelToNote(n, l, netOk)
  \/ \E n \in knownNotes, l \in knownLabels, netOk \in BOOLEAN :
       removeLabelFromNote(n, l, netOk)

\* the facade from a first visit on, for a user who stays signed in, a page
\* that stays open and a connection that may drop. No facade operation adds
\* to the queue (thisAddToSyncQueue), so a drain has nothing to act on; the
\* orchestrator is left to SpecSync.
Spec == Init /\ [][Next]_vars

\* the orchestrator alone, over a database whose queue holds entries, for a
\* user who stays signed in and a page that stays open, with at most MaxCycles
\* drain cycles started
NextSync ==
  \/ cycles < MaxCycles /\ handleOnline
  \/ handleOffline
  \/ cycles < MaxCycles /\ syncInterval
  \/ cycles < MaxCycles /\ manualSync
  \/ \E s \in Slots : drainGetQueue(s)
  \/ \E s \in Slots, netOk \in BOOLEAN : drainApply(s, netOk)
  \/ \E s \in Slots : drainHandle(s)
  \/ \E s \in Slots : drainFinish(s)
  \/ \E u \in Users, netOk \in BOOLEAN : signIn(u, netOk)

SpecSync == InitSync /\ [][NextSync]_vars

\* the same for a user who also signs out
NextGuard ==
  \/ NextSync
  \/ signOut

SpecGuard == InitSync /\ [][NextGuard]_vars

\* the same with connectivity left as it is at mount and the context's own
\* syncWithServer as the only trigger
NextManual ==
  \/ manualSync
  \/ \E s \in Slots : drainGetQueue(s)
  \/ \E s \in Slots, netOk \in BOOLEAN : drainApply(s, netOk)
  \/ \E s \in Slots : drainHandle(s)
  \/ \E s \in Slots : drainFinish(s)
  \/ \E u \in Users, netOk \in BOOLEAN : signIn(u, netOk)

SpecManual == InitSync /\ [][NextManual]_vars

\* the same while a consumer of the context adds up to MaxEnqueues entries,
\* for the records the queue already names, through the service
NextDrain ==
  \/ NextManual
  \/ /\ ops < MaxEnqueues
     /\ \E rid \in {1, UuidBase + 1}, t \in Titles :
          offlineService_addToSyncQueue("notes", rid, "update",
                                        [title |-> t, updated_at |-> now])

SpecDrain == InitSync /\ [][NextDrain]_vars

\* the orchestrator with its own syncWithServer as the only trigger, over a
\* Local Store whose calls may reject, with at most MaxCycles drain cycles
\* started
NextCycle ==
  \/ cycles < MaxCycles /\ manualSync
  \/ \E s \in Slots : drainGetQueue(s)
  \/ \E s \in Slots, netOk \in BOOLEAN : drainApply(s, netOk)
  \/ \E s \in Slots : drainHandle(s)
  \/ \E s \in Slots : drainAbort(s)
  \/ \E s \in Slots : drainFinish(s)
  \/ \E u \in Users, netOk \in BOOLEAN : signIn(u, netOk)

\* every call of a drain returns: a drain that can take a step takes one
SpecCycle ==
  /\ InitSync
  /\ [][NextCycle]_vars
  /\ \A s \in Slots :
       WF_vars(\/ drainGetQueue(s)
               \/ \E netOk \in BOOLEAN : drainApply(s, netOk)
               \/ drainHandle(s)
               \/ drainAbort(s)
               \/ drainFinish(s))

\* the entries offlineService.labels.removeFromNote and addToNote write for
\* the label of the server's note: the detach carries the payload {} and the
\* key of the local row, the attach carries the pair
linkEntries ==
  {[id |-> 6, table_name |-> "note_labels", record_id |-> 2, operation |-> "delete",
    data |-> noData, created_at |-> 2, retries |-> 0],
   [id |-> 7, table_name |-> "note_labels", record_id |-> 3, operation |-> "create",
    data |-> [note_id |-> UuidBase + 1, label_id |-> UuidBase + 2],
    created_at |-> 3, retries |-> 0]}

\* a later visit whose queue holds the detach, or the detach and then the
\* attach again
InitLinks == mount({{e \in linkEntries : e.id = 6}, linkEntries})

SpecLinks == InitLinks /\ [][NextManual]_vars

\* the same with the user signing out, and the page closed and opened again,
\* at any moment
NextCrash ==
  \/ NextManual
  \/ signOut
  \/ reload

SpecCrash == InitSync /\ [][NextCrash]_vars

\* the owners whose data one browser profile can hold
Owners == {"A", "B"}

\* the orchestrator over the queue an earlier session of A left, in a browser
\* profile where A or B signs in and out
NextSwitch ==
  \/ manualSync
  \/ \E s \in Slots : drainGetQueue(s)
  \/ \E s \in Slots, netOk \in BOOLEAN : drainApply(s, netOk)
  \/ \E s \in Slots : drainHandle(s)
  \/ \E s \in Slots : drainFinish(s)
  \/ \E u \in Owners, netOk \in BOOLEAN : signIn(u, netOk)
  \/ signOut

SpecSwitch == InitSync /\ [][NextSwitch]_vars

\* the document exportData makes of one note, one label, their association
\* and one preference
snapshot(uid, noteId, trashedAt, labelId, id) ==
  [version |-> "1.0", exportDate |-> 1, userId |-> uid,
   data |-> [notes |-> {[id |-> noteId, user_id |-> uid, title |-> "t1",
                          content |-> "c", deleted |-> trashedAt # Null,
                          deleted_at |-> trashedAt, created_at |-> 1,
                          updated_at |-> 1, sync_status |-> "pending",
                          last_modified |-> 1]},
             labels |-> {[id |-> labelId, user_id |-> uid, name |-> "work",
                          created_at |-> 1, sync_status |-> "pending"]},
             noteLabels |-> {[id |-> id, note_id |-> noteId, label_id |-> labelId]},
             preferences |-> {[id |-> id, user_id |-> uid, key |-> "theme",
                               value |-> "dark"]}]]

\* the documents a user offers for import: B's, A's, and one of A's whose
\* label has the key of B's label
Snapshots ==
  {snapshot("B", 1, Null, 1, 1), snapshot("A", 2, Null, 2, 2),
   snapshot("A", 3, 1, 1, 3)}

\* export, import and preferences over a database that starts empty
NextPort ==
  \/ \E x \in Snapshots : importData(x)
  \/ \E u \in Owners : exportData(u)
  \/ \E u \in Owners, v \in {"dark", "light"} : setPreference(u, "theme", v)
  \/ \E u \in Owners : getPreference(u, "theme")

SpecPort == Init /\ [][NextPort]_vars

\* the service's note calls and imports over a database that starts empty,
\* for ids that are there, ids that are not, and ids of another owner's notes
NextStore ==
  \/ \E u \in Users, d \in NoteData : offlineService_notes_create(u, d)
  \/ \E n \in 1..3, u \in Owners, d \in NoteUpdates : offlineService_notes_update(n, u, d)
  \/ \E n \in 1..3, u \in Owners, p \in BOOLEAN : notes_delete(n, u, p)
  \/ \E n \in 1..3, u \in Owners : notes_restore(n, u)
  \/ \E x \in Snapshots : importData(x)

SpecStore == Init /\ [][NextStore]_vars

\* the service's trash and maintenance calls over a database that holds
\* trashed notes, while the clock runs
InitTrash == mountOver({{}}, trashedNotes, {<<>>})

NextTrash ==
  \/ tick
  \/ \E n \in {r.id : r \in trashedNotes}, u \in Users, p \in BOOLEAN : notes_delete(n, u, p)
  \/ \E n \in {r.id : r \in trashedNotes}, u \in Users : notes_restore(n, u)
  \/ cleanup

SpecTrash == InitTrash /\ [][NextTrash]_vars

\* the facade's reads over a database that holds notes, live and trashed,
\* for a user whose connection may drop
NextRead ==
  \/ handleOffline
  \/ \E u \in Users, netOk \in BOOLEAN : signIn(u, netOk)
  \/ \E q \in Titles, pinecone \in BOOLEAN, hits \in {{}, {"semantic"}}, netOk \in BOOLEAN :
       searchNotes(q, pinecone, hits, netOk)
  \/ \E netOk \in BOOLEAN : getTrashedNotes(netOk)
  \/ \E netOk \in BOOLEAN : loadData(netOk)

SpecRead == InitTrash /\ [][NextRead]_vars

\* the service's cache calls, while the clock runs
Hashes == {"h1"}
Responses == {"r1", "r2"}
Ttls == {1, 2}

NextCache ==
  \/ tick
  \/ \E h \in Hashes, r \in Responses, ttl \in Ttls : cacheAIResponse(h, r, ttl)
  \/ \E h \in Hashes : getCachedAIResponse(h)

SpecCache == Init /\ [][NextCache]_vars

\* the listing over every array of notes, with the filters set at will
InitView == mountOver({{}}, {}, Arrays)

NextView ==
  \/ render
  \/ \E q \in SearchQueries : setSearchQuery(q)
  \/ \E c \in Colors : setSelectedColor(c)
  \/ \E l \in LabelIds : setSelectedLabel(l)

SpecView == InitView /\ [][NextView]_vars

\* -------------------------------------------------------------- Properties

\* the calls for queue entry e among `calls`
attemptsIn(calls, e) ==
  BagCardinality([c \in {x \in BagToSet(calls) : x.e = e} |-> calls[c]])

\* the calls the Remote Store has received for queue entry e since mount
attempts(e) == attemptsIn(remoteCalls, e)

\* the failures counted for entry e before mount
earlier(e) == (CHOOSE p \in persistedEntries : p.id = e).retries

\* the queue entries, waiting or handled, that name record rid of table t
entriesOf(S, t, rid) == {e \in S : e.table_name = t /\ e.record_id = rid}

\* C1: an entry whose Remote Store calls fail every time is removed from the
\* queue as part of handling its 3rd failure, so no entry waits with 3
\* counted failures, and the Remote Store is never called a 4th time for it.
C1_RemovedAtThirdFailure ==
  /\ \A e \in sync_queue : e.retries < RetryCap
  /\ \A e \in persistedEntries : earlier(e.id) + attempts(e.id) <= RetryCap

\* C2: once the queue is empty and no drain runs, every entry that was given
\* up had exactly 3 failed attempts, and every local note is synced unless its
\* entry was given up.
C2_EmptyQueueSettled ==
  (sync_queue = {} /\ running = {}) =>
    /\ \A e \in dropped : earlier(e.id) + attempts(e.id) = RetryCap
    /\ \A n \in notes : \/ n.sync_status = "synced"
                        \/ entriesOf(dropped, "notes", n.id) # {}

\* C3: creating a note while offline inserts exactly one local note with
\* sync_status pending and exactly one queue entry (notes, its id, create,
\* retries 0); and once that entry has been replayed successfully the Remote
\* Store has received exactly one create call carrying the note's title and
\* content and the local note is synced.
C3_OfflineCreateEndToEnd ==
  /\ [][(ops' = ops + 1 /\ ~isOnline /\ last'.op = "createNote") =>
          /\ Cardinality(notes' \ notes) = 1
          /\ \A n \in notes' \ notes :
               /\ n.sync_status = "pending"
               /\ \E e \in sync_queue' \ sync_queue :
                    /\ sync_queue' \ sync_queue = {e}
                    /\ e.table_name = "notes" /\ e.record_id = n.id
                    /\ e.operation = "create" /\ e.retries = 0]_vars
  /\ [](\A n \in notes : \A e \in entriesOf(delivered, "notes", n.id) :
          (e.operation = "create" /\ entriesOf(sync_queue, "notes", n.id) = {}
             /\ running = {}) =>
            /\ attempts(e.id) = 1
            /\ \A c \in BagToSet(remoteCalls) :
                 c.e = e.id => c.fn = "createNote" /\ c.data.title \in Titles
                               /\ c.data.content = "c"
            /\ n.sync_status = "synced")

\* the Dexie table a facade operation writes
opTable(op) ==
  IF op \in {"createNote", "updateNote", "deleteNote", "moveToTrash", "restoreNote"}
    THEN "notes"
  ELSE IF op \in {"createLabel", "updateLabel", "deleteLabel"} THEN "labels"
  ELSE "note_labels"

\* C4: every offline facade operation that changes the Local Store appends
\* exactly one queue entry with retries 0 for the table it wrote, and returns
\* to its caller without an error.
C4_OfflineMutationEnqueues ==
  [][(ops' = ops + 1 /\ ~isOnline
        /\ <<notes, labels, note_labels>>' # <<notes, labels, note_labels>>) =>
       /\ last'.ok
       /\ Cardinality(sync_queue' \ sync_queue) = 1
       /\ \A e \in sync_queue' \ sync_queue :
            e.retries = 0 /\ e.table_name = opTable(last'.op)]_vars

\* C5: when the replay of a create or update entry of a note or a label
\* succeeds, the entry leaves the queue and the local record it names has
\* sync_status synced.
C5_SuccessMarksSynced ==
  [][\A e \in delivered' \ delivered :
       (e.table_name \in {"notes", "labels"} /\ e.operation \in {"create", "update"}) =>
         /\ \A q \in sync_queue' : q.id # e.id
         /\ \A n \in notes' : (e.table_name = "notes" /\ n.id = e.record_id) =>
                                n.sync_status = "synced"
         /\ \A l \in labels' : (e.table_name = "labels" /\ l.id = e.record_id) =>
                                 l.sync_status = "synced"]_vars

\* C6: replaying a queue entry a second time leaves the Remote Store as one
\* replay left it: no create entry is the origin of two remote records.
C6_ReplayIdempotent ==
  \A e \in persistedEntries : Cardinality({p \in origin : p[2] = e.id}) <= 1

\* <<created_at, id>> of a is before that of b
before(a, b) == a[1] < b[1] \/ (a[1] = b[1] /\ a[2] < b[2])

\* C7: entries are applied strictly in creation order: whenever the Remote
\* Store is called for an entry, no call has yet been made for an entry
\* created after it, in this drain or an earlier one.
C7_GlobalCreationOrder ==
  [][\A c \in BagToSet(remoteCalls') :
       (c.e # 0 /\ (c \notin BagToSet(remoteCalls)
                     \/ CopiesIn(c, remoteCalls') > CopiesIn(c, remoteCalls))) =>
         \A b \in BagToSet(remoteCalls) :
           b.e # 0 => ~before(<<c.at, c.e>>, <<b.at, b.e>>)]_vars

\* C8: at most one drain is in progress at any time.
C8_SingleDrain == Cardinality(running) <= 1

\* C9: every change from offline to online while a user is signed in and no
\* drain runs starts a drain.
C9_ReconnectStartsDrain ==
  [][(~isOnline /\ isOnline' /\ userId # NoUser /\ running = {}) =>
       {s \in Slots : drains'[s].pc # "idle"} # {}]_vars

\* C10: a facade operation invoked while offline makes no Remote Store call
\* and leaves the Remote Store as it was.
C10_OfflineNoRemoteCall ==
  [][(ops' = ops + 1 /\ ~isOnline) => UNCHANGED <<remoteVars, remoteCalls>>]_vars

\* an offline createNote has written its note to Dexie and the Remote Store
\* has heard nothing
C10_Witness ==
  /\ last.op = "createNote" /\ last.route = "offline"
  /\ notes # {}
  /\ remoteCalls = EmptyBag

\* C11: every successful facade operation taken while online calls the Remote
\* Store, appends no queue entry, and leaves in the Local Store, with
\* sync_status synced, every note the Remote Store wrote for it.
C11_OnlineMirrorsLocally ==
  [][(ops' = ops + 1 /\ isOnline /\ last'.ok) =>
       /\ remoteCalls' # remoteCalls
       /\ sync_queue' = sync_queue
       /\ \A r \in rnotes' \ rnotes :
            \E n \in notes' : /\ n.id = r.id /\ n.title = r.title
                              /\ n.sync_status = "synced"]_vars

\* C12: a facade operation taken while online whose Remote Store call fails
\* raises the error to its caller and changes neither the Local Store, nor the
\* queue, nor the notes and labels held in memory; a create that inserted no
\* remote row is reported as failed.
C12_OnlineFailureChangesNothing ==
  [][(ops' = ops + 1 /\ isOnline) =>
       /\ ~last'.ok => /\ UNCHANGED <<localVars, memVars>>
                       /\ [kind |-> "OperationFailed", e |-> 0] \in toasts'
       /\ (last'.op \in {"createNote", "createLabel"}
             /\ rnotes' = rnotes /\ rlabels' = rlabels) => ~last'.ok]_vars

\* an online facade operation has failed
C12_Witness ==
  /\ last.route = "online" /\ ~last.ok
  /\ [kind |-> "OperationFailed", e |-> 0] \in toasts
  /\ remoteCalls # EmptyBag

\* C13: an entry leaves the queue only after the Remote Store has been called
\* for it, and then only because a call succeeded or the entry was given up at
\* the cap.
C13_RemovedOnlyAfterApplied ==
  [][\A e \in sync_queue :
       (\A q \in sync_queue' : q.id # e.id) =>
         /\ attemptsIn(remoteCalls', e.id) >= 1
         /\ handled(e) \in delivered' \cup dropped']_vars

\* C14: an offline permanent delete of a note removes the local record and
\* leaves in the queue one delete entry for its id that carries the permanent
\* flag.
C14_HardDeleteLeavesEntry ==
  [][(ops' = ops + 1 /\ ~isOnline /\ last'.op = "deleteNote") =>
       \A n \in notes \ notes' :
         \E e \in sync_queue' \ sync_queue :
           /\ e.table_name = "notes" /\ e.record_id = n.id
           /\ e.operation = "delete" /\ e.data = [permanent |-> TRUE]]_vars

\* C15: whenever an entry is given up at the cap a QueueExhausted notification
\* for it is shown, whichever trigger started the drain, and no other step of
\* a drain shows one.
C15_DropNotifies ==
  [][/\ \A e \in dropped' \ dropped :
          [kind |-> "QueueExhausted", e |-> e.id] \in toasts'
     /\ \A t \in toasts' \ toasts :
          t.kind = "QueueExhausted" => \E e \in dropped' \ dropped : e.id = t.e]_vars

\* C16: the replay of an update entry of a note that succeeds writes the
\* payload to the Remote Store whatever updated_at the remote row holds: the
\* row then has the payload's fields and is stamped with the time of the call.
C16_ReplayOverwritesNewer ==
  [][\A s \in Slots :
       LET d == drains[s]
           item == d.snap[d.i]
       IN (d.pc = "apply" /\ drains'[s].pc = "handle" /\ drains'[s].res = "ok"
             /\ item.table_name = "notes" /\ item.operation = "update") =>
            \A r \in rnotes' :
              r.id = item.record_id => r.title = item.data.title
                                       /\ r.updated_at = now]_vars

\* an update made before the server's note was last written has been
\* replayed, and the server's note holds its title
C16_Witness ==
  /\ \E e \in delivered, r \in serverNotes :
       /\ e.id = 3 /\ e.record_id = r.id
       /\ r.updated_at > (CHOOSE p \in persistedEntries : p.id = 3).data.updated_at
  /\ \E r \in rnotes : r.id = UuidBase + 1 /\ r.title = "t2"


\* pinned before unpinned and, among notes pinned alike, newest first
ordered(out) ==
  \A i, j \in 1..Len(out) :
    i < j => /\ out[j].pinned => out[i].pinned
             /\ out[i].pinned = out[j].pinned => out[i].updated_at >= out[j].updated_at

\* C17: whatever the notes array and whatever filters are set, the listing
\* the facade exposes has every pinned note before every unpinned one and,
\* within each group, the notes in descending updated_at order.
C17_ListingOrdered == ret.fn = "filteredNotes" => ordered(ret.value)

\* a listing of the two red notes of three, the pinned one first, computed
\* from an array that held them the other way round
C17_Witness ==
  /\ ret.fn = "filteredNotes"
  /\ ret.arg.selectedColor = "red"
  /\ Len(ret.arg.notes) = 3
  /\ Len(ret.value) = 2
  /\ ret.value[1].pinned /\ ~ret.value[2].pinned
  /\ \E i, j \in 1..3 : /\ i < j
                         /\ ret.arg.notes[i] = ret.value[2]
                         /\ ret.arg.notes[j] = ret.value[1]

\* the note the last call named agrees with what it was when it was moved to
\* the trash, in every field outside `except`
sameOutside(except) ==
  \A n \in notes, o \in orig :
    (n.id = ret.arg /\ o.id = n.id) =>
      \A f \in (DOMAIN o) \ except : n[f] = o[f]

\* C18: after a soft delete followed by a restore the local record has
\* deleted = false and deleted_at = null and equals the record as it was
\* before the soft delete in every field except deleted, deleted_at,
\* updated_at and last_modified, the stamp the 'updating' hook keeps.
C18_RoundTripKeepsPayload ==
  ret.fn = "notes.restore" =>
    /\ sameOutside({"deleted", "deleted_at", "updated_at", "last_modified"})
    /\ \A n \in notes : n.id = ret.arg => n.deleted = FALSE /\ n.deleted_at = Null

\* C18 as stated: equal in every field except deleted, deleted_at, updated_at
C18_RoundTripExact ==
  ret.fn = "notes.restore" =>
    /\ sameOutside({"deleted", "deleted_at", "updated_at"})
    /\ \A n \in notes : n.id = ret.arg => n.deleted = FALSE /\ n.deleted_at = Null

\* note 2, never trashed before, was moved to the trash and restored later
C18_Witness ==
  /\ ret.fn = "notes.restore"
  /\ \E n \in notes, o \in orig :
       /\ n.id = ret.arg /\ o.id = n.id
       /\ ~o.deleted /\ ~n.deleted
       /\ n.updated_at > o.updated_at

\* C19: a cleanup removes every trashed note whose deleted_at is more than
\* the retention window of 7 days back, and no other note.
C19_CleanupPurgesOldTrash ==
  [][(ret'.fn = "cleanup" /\ now' = now) =>
       notes' = {n \in notes : ~(/\ n.deleted
                                /\ n.deleted_at # Null
                                /\ n.deleted_at < now - trashRetentionDays)}]_vars

\* C20: for a hash with one cached record, getCachedAIResponse returns the
\* stored payload at every time before expires_at, and from expires_at on it
\* returns nothing and removes the record.
C20_CacheTtl ==
  [][(ret'.fn = "getCachedAIResponse" /\ now' = now) =>
       \A c \in cached_ai_responses :
         (/\ c.query_hash = ret'.arg
          /\ \A d \in cached_ai_responses : d.query_hash = c.query_hash => d = c) =>
           IF now < c.expires_at
             THEN ret'.value = c.response /\ c \in cached_ai_responses'
             ELSE ret'.value = NoValue /\ c \notin cached_ai_responses']_vars

\* the records of `rows` are in `table`, whatever the hooks stamp on them
holds(table, rows) ==
  \A r \in rows : \E t \in table :
    \A f \in (DOMAIN r) \ {"sync_status", "last_modified"} : t[f] = r[f]

\* some record of snapshot x has the key of a record the Local Store holds
clashes(x) ==
  \/ \E r \in x.data.notes, t \in notes : t.id = r.id
  \/ \E r \in x.data.labels, t \in labels : t.id = r.id
  \/ \E r \in x.data.noteLabels, t \in note_labels : t.id = r.id
  \/ \E r \in x.data.preferences, t \in user_preferences : t.id = r.id

\* C21: an import during which the insert of some record fails leaves the
\* four tables of the Local Store as they were before it; any other import
\* leaves every note, label, association and preference of the snapshot in
\* the Local Store.
C21_ImportAllOrNothing ==
  [][(ret'.fn = "importData" /\ ops' # ops) =>
       IF clashes(ret'.arg)
         THEN /\ ret'.value = "BulkError"
              /\ UNCHANGED <<notes, labels, note_labels, user_preferences>>
         ELSE /\ ret'.value = "done"
              /\ holds(notes', ret'.arg.data.notes)
              /\ holds(labels', ret'.arg.data.labels)
              /\ holds(note_labels', ret'.arg.data.noteLabels)
              /\ holds(user_preferences', ret'.arg.data.preferences)]_vars

\* an import was rejected at its labels, after its note had been inserted
C21_Witness ==
  /\ ret.fn = "importData"
  /\ ret.value = "BulkError"
  /\ \A r \in ret.arg.data.notes : ~\E t \in notes : t.id = r.id
  /\ \E r \in ret.arg.data.labels, t \in labels : t.id = r.id

\* C22: the snapshot exported for an owner holds that owner's notes, labels
\* and preferences and the associations of that owner's notes and labels,
\* and nothing of another owner, so that it does not depend on what the
\* Local Store holds for other owners.
C22_ExportOwnDataOnly ==
  [][(ret'.fn = "exportData" /\ ops' # ops) =>
       LET own(table) == {r \in table : r.user_id = ret'.arg}
       IN ret'.value.data =
            [notes |-> own(notes), labels |-> own(labels),
             noteLabels |-> {a \in note_labels :
                               \/ \E n \in own(notes) : n.id = a.note_id
                               \/ \E l \in own(labels) : l.id = a.label_id},
             preferences |-> own(user_preferences)]]_vars

\* C27: after setPreference(owner, key, value) the store holds one
\* preference record for (owner, key), and it has that value, which is what
\* getPreference(owner, key) then returns.
C27_PreferenceUpsert ==
  [][(ret'.fn = "setPreference" /\ ops' # ops) =>
       \E p \in user_preferences' :
         /\ <<p.user_id, p.key>> = ret'.arg
         /\ \A o \in user_preferences' :
              (o.user_id = p.user_id /\ o.key = p.key) => o = p]_vars

\* C23: an update, soft delete, hard delete or restore of the service that
\* names a note id the Local Store does not hold fails with NotFound and
\* leaves the Local Store and the Sync Queue as they were.
C23_AbsentIdIsNotFound ==
  [][(/\ ret'.fn \in {"notes.update", "notes.delete", "notes.restore"}
      /\ ops' # ops
      /\ ~\E n \in notes : n.id = ret'.arg) =>
       /\ ret'.value = "NotFound"
       /\ UNCHANGED <<notes, labels, note_labels, sync_queue>>]_vars

C25_OneAssociationPerPair ==
  \A a, b \in note_labels :
    (a.note_id = b.note_id /\ a.label_id = b.label_id) => a = b

\* C26: an offline delete of a label or permanent delete of a note leaves in
\* the Local Store no association that names the record it removed.
C26_DeleteCascades ==
  [][(ops' = ops + 1 /\ ~isOnline /\ last'.op \in {"deleteNote", "deleteLabel"}) =>
       \A a \in note_labels' :
         /\ \A n \in notes \ notes' : a.note_id # n.id
         /\ \A l \in labels \ labels' : a.label_id # l.id]_vars

\* the methods of the Local Store's service that a read may call
localReads ==
  {"offlineService.notes.getAll", "offlineService.labels.getAll",
   "offlineService.notes.getTrashed", "offlineService.notes.search"}

\* C28: a list, trash listing or search made while offline calls the Local
\* Store only; a search made while online calls the semantic lookup at most
\* once and, when that finds nothing, goes on to the text search; and a
\* search returns a result, empty on failure, and never raises.
C28_ReadsRouted ==
  (ret.fn \in {"searchNotes", "getTrashedNotes", "loadData"}) =>
    /\ ~ret.arg.online => \A i \in DOMAIN reads : reads[i] \in localReads
    /\ Cardinality({i \in DOMAIN reads : reads[i] = "aiService.searchNotesSemantic"}) <= 1
    /\ (ret.fn = "searchNotes" /\ ret.arg.online /\ ret.arg.hits = {}) =>
         reads[Len(reads)] = "notesService.searchNotes"
    /\ ret.fn = "searchNotes" => ~ret.value.raised

\* an online search whose semantic lookup found nothing went on to the
\* Remote Store's text search, which found the server's note
C28_Witness ==
  /\ ret.fn = "searchNotes"
  /\ reads = <<"aiService.searchNotesSemantic", "notesService.searchNotes">>
  /\ ret.value.result = {UuidBase + 1}

\* the keys of the entries a drain read when it started
snapshotIds(d) == {d.snap[i].id : i \in DOMAIN d.snap}

\* C29: a step of a drain acts on the entry of its snapshot it has reached
\* and on no other: every entry that was not in the queue when the drain read
\* it stays in the queue unchanged, is not sent to the Remote Store and is not
\* recorded as handled by that drain; it is left for a later drain.
C29_DrainActsOnItsSnapshot ==
  [][\A s \in Slots :
       (drains[s].pc \in {"apply", "handle"} /\ drains'[s] # drains[s]) =>
         LET d == drains[s]
             item == d.snap[d.i]
         IN /\ \A e \in sync_queue : e.id \notin snapshotIds(d) => e \in sync_queue'
            /\ \A c \in BagToSet(remoteCalls') :
                 CopiesIn(c, remoteCalls') > CopiesIn(c, remoteCalls) => c.e = item.id
            /\ \A h \in (delivered' \cup dropped') \ (delivered \cup dropped) :
                 h.id = item.id]_vars

\* an entry added while a drain was working through its snapshot outlived
\* that drain, which delivered the entry it had read, and was delivered by
\* the next one
C29_Witness ==
  /\ ret.fn = "addToSyncQueue"
  /\ ret.arg.inFlight
  /\ \E h \in delivered : h.id = ret.value
  /\ \E h \in delivered : h.id < ret.value
  /\ \A s \in Slots : drains[s].pc = "idle"

\* C30: while every call returns, a drain that has started comes back to
\* idle with isSyncing false, whether its entries succeed or fail and whether
\* or not it aborts, so that the guard lets a later trigger through.
C30_DrainReturnsToIdle ==
  \A s \in Slots : (drains[s].pc # "idle") ~> (drains[s].pc = "idle" /\ ~isSyncing)

\* a drain aborted, the guard was cleared, and a later trigger has started
\* the drain that is now reading the queue
C30_Witness ==
  /\ [kind |-> "SyncFailed", e |-> 0] \in toasts
  /\ cycles >= 2
  /\ isSyncing
  /\ \E s \in Slots : drains[s].pc = "getQueue"

\* C31: when the replay of an entry fails and the failure is not yet the
\* third, the entry is still in the queue afterwards with one more retry and
\* nothing else changed, the local notes and labels are as they were, and the
\* drain goes on to the next entry of its snapshot, or to its end after the
\* last.
C31_FailureBelowCapCounted ==
  [][\A s \in Slots :
       LET d == drains[s]
           item == d.snap[d.i]
       IN (/\ d.pc = "handle"
           /\ d.res = "err"
           /\ item.retries + 1 < RetryCap
           /\ drains'[s] # d) =>
            /\ \E e \in sync_queue :
                 /\ e.id = item.id
                 /\ [e EXCEPT !.retries = e.retries + 1] \in sync_queue'
            /\ notes' = notes /\ labels' = labels
            /\ drains'[s].pc = IF d.i < Len(d.snap) THEN "apply" ELSE "finish"
            /\ d.i < Len(d.snap) => drains'[s].i = d.i + 1]_vars

\* C32: once the create entry of the note made and then retitled offline has
\* been delivered and no entry for the note is left in the queue, the Remote
\* Store holds exactly one record made from that create entry, with the title
\* and content of the local note.
C32_UpdateReachesCreatedRecord ==
  LET made == {r \in rnotes : \E p \in origin : p[1] = r.id /\ p[2] = 1}
  IN (/\ \E h \in delivered : h.id = 1
      /\ \A e \in sync_queue : e.record_id # 1) =>
       /\ Cardinality(made) = 1
       /\ \A r \in made, n \in notes :
            n.id = 1 => r.title = n.title /\ r.content = n.content

\* C33: a record the Remote Store holds because a queue entry was replayed
\* belongs to the owner of the local record the entry was written for: an
\* entry of A is never applied under the id of B.
C33_ReplayedUnderItsOwner ==
  \A p \in origin, r \in rnotes, e \in persistedEntries, n \in notes :
    (p[1] = r.id /\ p[2] = e.id /\ e.table_name = "notes" /\ e.record_id = n.id) =>
      r.user_id = n.user_id

\* C34: every local note or label whose sync_status is pending is named by an
\* entry of the queue, or by an entry that was discarded at the retry cap.
C34_PendingHasEntry ==
  /\ \A n \in notes :
       n.sync_status = "pending" =>
         \E e \in sync_queue \cup dropped : e.table_name = "notes" /\ e.record_id = n.id
  /\ \A l \in labels :
       l.sync_status = "pending" =>
         \E e \in sync_queue \cup dropped : e.table_name = "labels" /\ e.record_id = l.id

\* C35: a local note or label whose sync_status is synced is named by no
\* entry of the queue, also while a drain has applied only the first of the
\* entries queued for it.
C35_SyncedHasNoEntry ==
  /\ \A n \in notes :
       n.sync_status = "synced" =>
         ~\E e \in sync_queue : e.table_name = "notes" /\ e.record_id = n.id
  /\ \A l \in labels :
       l.sync_status = "synced" =>
         ~\E e \in sync_queue : e.table_name = "labels" /\ e.record_id = l.id

\* C36: once the entry of the offline detach has been delivered, and the
\* attach queued after it has not, the Remote Store no longer holds the
\* association of that note and label; once the attach has been delivered it
\* holds exactly one.
C36_DetachReplayRemovesPair ==
  LET pair == {a \in rnote_labels :
                 a.note_id = UuidBase + 1 /\ a.label_id = UuidBase + 2}
  IN /\ ((\E h \in delivered : h.id = 6) /\ ~(\E h \in delivered : h.id = 7)) =>
          pair = {}
     /\ (\E h \in delivered : h.id = 7) => Cardinality(pair) = 1

\* C37: in every state the retries of every queue entry lie between 0 and 3,
\* and no entry with 3 or more retries is in the queue while no drain runs;
\* and no step lowers the retries of an entry.
C37_RetriesBounded ==
  /\ [](/\ \A e \in sync_queue : 0 <= e.retries /\ e.retries <= RetryCap
        /\ (\A s \in Slots : drains[s].pc = "idle") =>
              \A e \in sync_queue : e.retries < RetryCap)
  /\ [][\A e \in sync_queue, f \in sync_queue' :
          e.id = f.id => f.retries >= e.retries]_vars

\* C38: getCachedAIResponse(h), called before the payload cached last for h
\* expires, returns that payload, whatever older payloads were cached for h.
C38_LatestPayloadReturned ==
  [][(ops' # ops /\ ret'.fn = "getCachedAIResponse") =>
       \A c \in cached_ai_responses :
         (/\ c.query_hash = ret'.arg
          /\ \A d \in cached_ai_responses : d.query_hash = c.query_hash => d.id <= c.id
          /\ now < c.expires_at) =>
           ret'.value = c.response]_vars

\* C39: a drain starts only in a step that leaves the app online with a user
\* signed in, so neither the timer nor any other trigger starts one while
\* offline or signed out; and a step that is not the progress of a running
\* drain, a trigger among them, leaves the Sync Queue and its retry counters
\* as they were.
C39_NoDrainOfflineOrSignedOut ==
  [][LET started == {s \in Slots : drains[s].pc = "idle" /\ drains'[s].pc # "idle"}
     IN /\ started # {} => (isOnline' /\ userId' # NoUser)
        /\ (started # {} \/ drains' = drains) => sync_queue' = sync_queue]_vars

\* the app is offline with entries waiting, after a drain has run and ended:
\* no drain is in progress
C39_Witness ==
  /\ ~isOnline
  /\ userId # NoUser
  /\ sync_queue # {}
  /\ cycles >= 1
  /\ \A s \in Slots : drains[s].pc = "idle"

\* C40: a step of a drain makes at most one Remote Store call, for an entry
\* the drain has not called for before in this cycle, and the drain then
\* waits for the answer and handles it before it makes its next call.
C40_OneCallPerEntryInTurn ==
  [][\A s \in Slots :
       LET d == drains[s]
           e == drains'[s]
       IN Len(e.called) > Len(d.called) =>
            /\ d.pc = "apply" /\ e.pc = "handle"
            /\ Len(e.called) = Len(d.called) + 1
            /\ \A i \in DOMAIN d.called : d.called[i] # e.called[Len(e.called)]]_vars

\* a drain has called the Remote Store for both entries of its snapshot, the
\* first of which failed and stays in the queue for a later cycle
C40_Witness ==
  \E s \in Slots :
    /\ drains[s].pc = "finish"
    /\ Len(drains[s].called) = 2
    /\ \E e \in sync_queue : e.id = drains[s].snap[1].id /\ e.retries = 1
====
